---- MODULE Spec2Model ----
(***************************************************************************)
(* A model of the recursive shading pipeline of the ray tracer             *)
(* (src/src/world.rs), of the intersection records (src/src/intersection.rs*)
(* and src/src/computation.rs) and of the CSG sweep                        *)
(* (src/src/shape/constructive_solid_geometry.rs).                         *)
(*                                                                         *)
(* Numbers.  The code is generic over a float type T.  The model uses      *)
(* fixed-point integers: the integer One stands for 1.0, and every product *)
(* or quotient is rounded toward zero.  Scenes are made of planes that are *)
(* translated along the y axis (the scene of tests::infinite_recursion),   *)
(* so nothing depends on z and all vectors are kept as [x, y].             *)
(***************************************************************************)
EXTENDS Integers, Sequences, FiniteSets, TLC

\* ------------------------------------------------------------------------
\* Fixed-point arithmetic standing for T: BaseFloat
\* ------------------------------------------------------------------------

\* T::one()
One == 100

\* f32::EPSILON / T::epsilon(): the smallest step the model distinguishes
\* above it is 1, so that a positive value below the epsilon exists.
EPSILON == 2

\* const RECURSION_LIMIT: u8
RECURSION_LIMIT == 5

Abs(a) == IF a < 0 THEN -a ELSE a

Sgn(a) == IF a < 0 THEN -1 ELSE IF a > 0 THEN 1 ELSE 0

\* a * b on T, truncated toward zero; the operands are evaluated once
fmul(a, b) ==
    LET mul[x \in Int, y \in Int] == Sgn(x) * Sgn(y) * ((Abs(x) * Abs(y)) \div One)
    IN  mul[a, b]

\* a / b on T (b /= 0), truncated toward zero
fdiv(a, b) ==
    LET div[x \in Int, y \in Int] == Sgn(x) * Sgn(y) * ((Abs(x) * One) \div Abs(y))
    IN  div[a, b]

\* floor of the integer square root
isqrt(n) ==
    LET root[m \in Nat] == CHOOSE r \in 0..m : r * r <= m /\ (r + 1) * (r + 1) > m
    IN  root[n]

\* a.sqrt() on T (a >= 0)
fsqrt(a) == isqrt(a * One)

\* Option<T>
None == [some |-> FALSE]

Some(x) == [some |-> TRUE, val |-> x]

\* Vector3 / Point3 restricted to the x-y plane
Vec(x, y) == [x |-> x, y |-> y]

vadd(a, b) == Vec(a.x + b.x, a.y + b.y)

vsub(a, b) == Vec(a.x - b.x, a.y - b.y)

vneg(a) == Vec(-a.x, -a.y)

\* vector * scalar
vscale(a, s) == Vec(fmul(a.x, s), fmul(a.y, s))

dot(a, b) == fmul(a.x, b.x) + fmul(a.y, b.y)

magnitude(a) == fsqrt(dot(a, a))

normalize(a) == LET m == magnitude(a) IN Vec(fdiv(a.x, m), fdiv(a.y, m))

unit_y == Vec(0, One)

\* ------------------------------------------------------------------------
\* Ray (src/src/ray.rs)
\* ------------------------------------------------------------------------

Ray(origin, direction) == [origin |-> origin, direction |-> direction]

position(ray, time) == vadd(ray.origin, vscale(ray.direction, time))

\* ------------------------------------------------------------------------
\* Material and Shape (src/src/material.rs, src/src/shape/mod.rs)
\* ------------------------------------------------------------------------

\* Material: colours are one grey level, the pattern is Solid(1, 1, 1) and the
\* light's intensity is (1, 1, 1); specular is 0 in every material of the model.
Material(ambient, diffuse, reflective, transparency, refractive_index) ==
    [ambient |-> ambient, diffuse |-> diffuse, reflective |-> reflective,
     transparency |-> transparency, refractive_index |-> refractive_index]

\* Material::lighting
lighting(m, light_position, point, eyev, normalv, in_shadow) ==
    LET effective_color == One
        lightv == normalize(vsub(light_position, point))
        ambient == fmul(effective_color, m.ambient)
        light_dot_normal == dot(lightv, normalv)
        diffuse == IF ~in_shadow /\ light_dot_normal >= 0
                   THEN fmul(fmul(effective_color, m.diffuse), light_dot_normal)
                   ELSE 0
    IN  ambient + diffuse

\* Matrix4<T> restricted to the x-y plane: the linear part (a b / c d) with
\* whole-number entries and the translation (tx, ty) on T
Matrix(a, b, c, d, tx, ty) == [a |-> a, b |-> b, c |-> c, d |-> d, tx |-> tx, ty |-> ty]

\* A translation by ty along y of a uniform scaling by scale; scale = 0 is
\* a matrix that has no inverse.
Transform(ty, scale) == Matrix(scale, 0, 0, scale, 0, ty)

\* Matrix4::identity()
identity == Matrix(1, 0, 0, 1, 0, 0)

determinant(m) == m.a * m.d - m.b * m.c

\* n / det on T with det a whole number, truncated toward zero
idiv(n, det) ==
    LET div[x \in Int, y \in Int] == Sgn(x) * Sgn(y) * (Abs(x) \div Abs(y))
    IN  div[n, det]

\* i * v for i the inverse of m and v a vector (no translation)
inverse_times_vector(m, v) ==
    Vec(idiv(m.d * v.x - m.b * v.y, determinant(m)),
        idiv(m.a * v.y - m.c * v.x, determinant(m)))

\* i * p for i the inverse of m and p a point
inverse_times_point(m, p) == inverse_times_vector(m, Vec(p.x - m.tx, p.y - m.ty))

\* i.transpose() * n for i the inverse of m and n a vector
inverse_transpose_times_vector(m, n) ==
    Vec(idiv(m.d * n.x - m.c * n.y, determinant(m)),
        idiv(m.a * n.y - m.b * n.x, determinant(m)))

Plane(transform, mat) == [kind |-> "Plane", transform |-> transform, material |-> mat]

Sphere(transform, mat) == [kind |-> "Sphere", transform |-> transform, material |-> mat]

Cube(transform, mat) == [kind |-> "Cube", transform |-> transform, material |-> mat]

Group(transform, children) ==
    [kind |-> "Group", transform |-> transform, children |-> children]

\* Shape::material
material(shape) ==
    IF shape.kind \in {"Group", "ConstructiveSolidGeometry"}
    THEN None
    ELSE Some(shape.material)

\* Matrix4::invert is Some
invertible(transform) == determinant(transform) /= 0

\* Plane::local_intersect on the ray already moved into object space
plane_local_intersect(shape, r) ==
    IF Abs(r.direction.y) <= EPSILON
    THEN <<>>
    ELSE << [t |-> fdiv(-r.origin.y, r.direction.y), object |-> shape] >>

\* Sphere::local_intersect on the ray already moved into object space
sphere_local_intersect(shape, r) ==
    LET sphere_to_ray == r.origin
        a == dot(r.direction, r.direction)
        b == dot(r.direction, sphere_to_ray) * 2
        c == dot(sphere_to_ray, sphere_to_ray) - One
        discriminant == fmul(b, b) - 4 * fmul(a, c)
    IN  IF discriminant > 0
        THEN << [t |-> fdiv(-b - fsqrt(discriminant), 2 * a), object |-> shape],
                [t |-> fdiv(-b + fsqrt(discriminant), 2 * a), object |-> shape] >>
        ELSE IF discriminant = 0
             THEN << [t |-> fdiv(-b, 2 * a), object |-> shape] >>
             ELSE <<>>

\* Ray::transform that brings the direction back to length 1
ray_transform_inverse_normalized(ray, transform) ==
    Ray(inverse_times_point(transform, ray.origin),
        normalize(inverse_times_vector(transform, ray.direction)))

\* Ray::transform by the inverse of the shape's transform
ray_transform_inverse(ray, transform) ==
    Ray(inverse_times_point(transform, ray.origin),
        inverse_times_vector(transform, ray.direction))

\* Vec::sort_by on t, which is stable: i goes behind the entries of the
\* sorted list xs that are not greater
RECURSIVE insert_sorted(_, _)
insert_sorted(xs, i) ==
    IF xs = <<>>
    THEN <<i>>
    ELSE IF xs[Len(xs)].t <= i.t
         THEN Append(xs, i)
         ELSE Append(insert_sorted(SubSeq(xs, 1, Len(xs) - 1), i), xs[Len(xs)])

\* the two lists one after the other, unsorted
sort_in_appended(xs, ys) == xs \o ys

\* the sorted list xs with every entry of ys sorted in, in the order of ys
RECURSIVE sort_in(_, _)
sort_in(xs, ys) ==
    IF ys = <<>> THEN xs ELSE sort_in(insert_sorted(xs, ys[1]), Tail(ys))

\* Shape::intersect; Group::local_intersect is the flat_map over the
\* children followed by sort_by.  A Cube is never intersected in the model.
RECURSIVE shape_intersect(_, _)
RECURSIVE group_flat_map(_, _, _)
RECURSIVE filter_intersections(_, _)

\* a local_intersect of the CSG node that tags what it keeps with the node
csg_local_intersect_tagged(self, ray) ==
    LET v == sort_in(<<>>, shape_intersect(self.left, ray) \o shape_intersect(self.right, ray))
        kept == filter_intersections(self, v)
    IN  [k \in DOMAIN kept |-> [t |-> kept[k].t, object |-> self]]

\* ConstructiveSolidGeometry::local_intersect
csg_local_intersect(self, ray) ==
    filter_intersections(
        self,
        sort_in(<<>>, shape_intersect(self.left, ray) \o shape_intersect(self.right, ray)))

group_flat_map(children, r, k) ==
    IF k > Len(children)
    THEN <<>>
    ELSE shape_intersect(children[k], r) \o group_flat_map(children, r, k + 1)

shape_intersect(shape, ray) ==
    IF invertible(shape.transform)
    THEN LET r == ray_transform_inverse(ray, shape.transform)
         IN  CASE shape.kind = "Plane" -> plane_local_intersect(shape, r)
               [] shape.kind = "Sphere" -> sphere_local_intersect(shape, r)
               [] shape.kind = "Group" ->
                    sort_in(<<>>, group_flat_map(shape.children, r, 1))  \* Group::local_intersect
               [] shape.kind = "ConstructiveSolidGeometry" -> csg_local_intersect(shape, r)
               [] OTHER -> <<>>
    ELSE <<>>

\* Shape::local_normal_at of the shapes whose normal the model asks for
local_normal_at(shape, point) ==
    CASE shape.kind = "Sphere" -> point
      [] shape.kind = "Plane" -> unit_y

\* normal_at that answers without asking for the inverse
normal_at_unit_y(shape, point) == Some(unit_y)

\* Shape::normal_at: the shape's own transform, whatever its ancestors
normal_at(shape, point) ==
    IF invertible(shape.transform)
    THEN Some(normalize(inverse_transpose_times_vector(
                  shape.transform,
                  local_normal_at(shape, inverse_times_point(shape.transform, point)))))
    ELSE None

\* shape::reflect
reflect(v, normal) == vsub(v, vscale(vscale(normal, 2 * One), dot(v, normal)))

\* ------------------------------------------------------------------------
\* Intersection (src/src/intersection.rs)
\* ------------------------------------------------------------------------

Intersection(t, object) == [t |-> t, object |-> object]

\* hit with the filter written as a strict comparison
hit_strict(v) ==
    LET ok == {i \in DOMAIN v : v[i].t > EPSILON}
    IN  IF ok = {} THEN None
        ELSE Some(v[CHOOSE i \in ok :
                      \A j \in ok : v[i].t < v[j].t \/ (v[i].t = v[j].t /\ i <= j)])

\* hit: filter t >= EPSILON, then min_by (the first of equal minima)
hit(v) ==
    LET ok == {i \in DOMAIN v : v[i].t >= EPSILON}
    IN  IF ok = {} THEN None
        ELSE Some(v[CHOOSE i \in ok :
                      \A j \in ok : v[i].t < v[j].t \/ (v[i].t = v[j].t /\ i <= j)])

\* ------------------------------------------------------------------------
\* Computation (src/src/computation.rs)
\* ------------------------------------------------------------------------

Computation(t, object, point, eyev, normalv, inside, reflectv, n1, n2) ==
    [t |-> t, object |-> object, point |-> point, eyev |-> eyev,
     normalv |-> normalv, inside |-> inside, reflectv |-> reflectv,
     n1 |-> n1, n2 |-> n2]

over_point(c) == vadd(c.point, vscale(c.normalv, EPSILON))

under_point(c) == vsub(c.point, vscale(c.normalv, EPSILON))

n_ratio(c) == fdiv(c.n1, c.n2)

cos_i(c) == dot(c.eyev, c.normalv)

sin2_t(c) == fmul(fmul(n_ratio(c), n_ratio(c)), One - fmul(cos_i(c), cos_i(c)))

\* sqrt of a negative number is NaN; the callers guard it with sin2_t <= 1
cos_t(c) == IF sin2_t(c) > One THEN 0 ELSE fsqrt(One - sin2_t(c))

pow5(a) == fmul(fmul(fmul(fmul(a, a), a), a), a)

\* schlick with the cosine of the incoming ray on both sides
schlick_cos_i(c) ==
    LET r0_t == fdiv(c.n1 - c.n2, c.n1 + c.n2)
        r0 == fmul(r0_t, r0_t)
    IN  IF c.n1 > c.n2 /\ sin2_t(c) > One
        THEN One
        ELSE r0 + fmul(One - r0, pow5(One - cos_i(c)))

\* Computation::schlick
schlick(c) ==
    IF c.n1 > c.n2 /\ sin2_t(c) > One
    THEN One
    ELSE LET cos == IF c.n1 > c.n2 THEN cos_t(c) ELSE cos_i(c)
             r0_t == fdiv(c.n1 - c.n2, c.n1 + c.n2)
             r0 == fmul(r0_t, r0_t)
         IN  r0 + fmul(One - r0, pow5(One - cos))

\* ------------------------------------------------------------------------
\* Intersection::precompute (src/src/intersection.rs)
\* ------------------------------------------------------------------------

\* containers.last().map(|i| i.material().unwrap().refractive_index)
last_index(containers) ==
    IF containers = <<>>
    THEN None
    ELSE Some(material(containers[Len(containers)]).val.refractive_index)

\* containers.remove(index)
remove_at(containers, index) ==
    [j \in 1..(Len(containers) - 1) |->
        IF j < index THEN containers[j] ELSE containers[j + 1]]

\* the toggle that pushes without looking for the shape first
toggle_push_only(containers, object) == Append(containers, object)

\* if let Some(index) = containers.iter().position(|x| *x == i.object)
\*     { containers.remove(index) } else { containers.push(i.object.clone()) }
toggle(containers, object) ==
    LET found == {j \in DOMAIN containers : containers[j] = object}
    IN  IF found /= {}
        THEN remove_at(containers, CHOOSE j \in found : \A k \in found : j <= k)
        ELSE Append(containers, object)

\* the loop `for i in xs` of precompute from position k on, with the
\* containers and the n1 found so far; yields the pair (n1, n2) of Options
RECURSIVE containers_walk(_, _, _, _, _)
containers_walk(self, xs, k, containers, n1) ==
    IF k > Len(xs)
    THEN [n1 |-> n1, n2 |-> None]
    ELSE LET i == xs[k]
             n1x == IF self = i THEN last_index(containers) ELSE n1
             next == toggle(containers, i.object)
         IN  IF self = i
             THEN [n1 |-> n1x, n2 |-> last_index(next)]
             ELSE containers_walk(self, xs, k + 1, next, n1x)

\* an unwrap that falls back to zero
unwrap_or_zero(o) == IF o.some THEN o.val ELSE 0

\* Option::unwrap_or_else(T::one)
unwrap_or_one(o) == IF o.some THEN o.val ELSE One

\* precompute that refuses a target that is not in xs
precompute_fail_fast(self, ray, xs) ==
    LET n == normal_at(self.object, position(ray, self.t))
        w == containers_walk(self, xs, 1, <<>>, None)
    IN  IF n.some /\ (\E k \in DOMAIN xs : xs[k] = self)
        THEN LET eyev == vneg(ray.direction)
                 inside == dot(n.val, eyev) < 0
                 normalv == IF inside THEN vneg(n.val) ELSE n.val
             IN  Some(Computation(self.t, self.object, position(ray, self.t), eyev,
                                  normalv, inside, reflect(ray.direction, normalv),
                                  unwrap_or_one(w.n1), unwrap_or_one(w.n2)))
        ELSE None

\* Intersection::precompute
precompute(self, ray, xs) ==
    LET point == position(ray, self.t)
        eyev == vneg(ray.direction)
        n == normal_at(self.object, point)
    IN  IF ~n.some
        THEN None
        ELSE LET t_normalv == n.val
                 inside == dot(t_normalv, eyev) < 0
                 normalv == IF inside THEN vneg(t_normalv) ELSE t_normalv
                 reflectv == reflect(ray.direction, normalv)
                 w == containers_walk(self, xs, 1, <<>>, None)
             IN  Some(Computation(self.t, self.object, point, eyev, normalv, inside,
                                  reflectv, unwrap_or_one(w.n1), unwrap_or_one(w.n2)))

\* ------------------------------------------------------------------------
\* Constructive solid geometry
\* (src/src/shape/constructive_solid_geometry.rs, Shape::include)
\* ------------------------------------------------------------------------

ConstructiveSolidGeometry(transform, op, left, right) ==
    [kind |-> "ConstructiveSolidGeometry", transform |-> transform, op |-> op,
     left |-> left, right |-> right]

Operation == {"Union", "Intersect", "Difference"}

\* Shape::include
RECURSIVE include(_, _)
include(self, other) ==
    IF self.kind = "Group"
    THEN \E c \in DOMAIN self.children : include(self.children[c], other)
    ELSE IF self.kind = "ConstructiveSolidGeometry"
         THEN include(self.left, other) \/ include(self.right, other)
         ELSE self = other

\* intersection_allowed with the Difference arm copied from the Union arm
intersection_allowed_copied_arm(op, lhit, inl, inr) ==
    CASE op = "Union" -> (lhit /\ ~inr) \/ (~lhit /\ ~inl)
      [] op = "Intersect" -> (lhit /\ inr) \/ (~lhit /\ inl)
      [] op = "Difference" -> (lhit /\ ~inr) \/ (~lhit /\ ~inl)

\* intersection_allowed
intersection_allowed(op, lhit, inl, inr) ==
    CASE op = "Union" -> (lhit /\ ~inr) \/ (~lhit /\ ~inl)
      [] op = "Intersect" -> (lhit /\ inr) \/ (~lhit /\ inl)
      [] op = "Difference" -> (lhit /\ ~inr) \/ (~lhit /\ inl)

\* the loop `for i in xs` of filter_intersections from position k on
RECURSIVE filter_loop(_, _, _, _, _, _)
filter_loop(self, xs, k, inl, inr, result) ==
    IF k > Len(xs)
    THEN result
    ELSE LET i == xs[k]
             lhit == include(self.left, i.object)
             kept == IF intersection_allowed(self.op, lhit, inl, inr)
                     THEN Append(result, i)
                     ELSE result
         IN  IF lhit
             THEN filter_loop(self, xs, k + 1, ~inl, inr, kept)
             ELSE filter_loop(self, xs, k + 1, inl, ~inr, kept)

\* ConstructiveSolidGeometry::filter_intersections
filter_intersections(self, xs) == filter_loop(self, xs, 1, FALSE, FALSE, <<>>)

\* ------------------------------------------------------------------------
\* World (src/src/world.rs)
\* ------------------------------------------------------------------------

\* the intersections of the first k objects with the ray, sorted by t
RECURSIVE intersect_first(_, _, _)
intersect_first(objs, ray, k) ==
    IF k = 0
    THEN <<>>
    ELSE sort_in(intersect_first(objs, ray, k - 1), shape_intersect(objs[k], ray))

\* World::intersect
world_intersect(objs, ray) == intersect_first(objs, ray, Len(objs))

\* is_shadowed that takes any hit for a shadow, however far
is_shadowed_any_hit(objs, light_position, point) ==
    hit(world_intersect(objs, Ray(point, normalize(vsub(light_position, point))))).some

\* World::is_shadowed; each `let` of the code is a value bound once
is_shadowed(objs, light_position, point) ==
    LET v == vsub(light_position, point)
        distance == magnitude(v)
    IN  \E direction \in {normalize(v)} :
        \E xs \in {world_intersect(objs, Ray(point, direction))} :
        \E h \in {hit(xs)} :
            h.some /\ h.val.t < distance

\* ------------------------------------------------------------------------
\* Bounds (src/src/bounds.rs).  A quotient of T by a zero is an infinity or,
\* for 0 / 0, a NaN: the values of check_axis are extended numbers.
\* ------------------------------------------------------------------------

Fin(v) == [k |-> "fin", v |-> v]
PInf == [k |-> "inf", v |-> 1]
NInf == [k |-> "inf", v |-> -1]
NaN == [k |-> "nan", v |-> 0]

\* numerator / direction on T, IEEE 754
ediv(numerator, direction) ==
    IF direction /= 0
    THEN Fin(fdiv(numerator, direction))
    ELSE IF numerator > 0 THEN PInf ELSE IF numerator < 0 THEN NInf ELSE NaN

\* a < b on T: false as soon as one side is a NaN
elt(a, b) ==
    /\ a.k /= "nan"
    /\ b.k /= "nan"
    /\ CASE a.k = "fin" /\ b.k = "fin" -> a.v < b.v
         [] a.k = "fin" /\ b.k = "inf" -> b.v > 0
         [] a.k = "inf" /\ b.k = "fin" -> a.v < 0
         [] a.k = "inf" /\ b.k = "inf" -> a.v < b.v

\* a <= b on T
ele(a, b) == a.k /= "nan" /\ b.k /= "nan" /\ (a = b \/ elt(a, b))

\* Float::max: the other operand when one is a NaN
emax(a, b) == IF a.k = "nan" THEN b ELSE IF b.k = "nan" THEN a ELSE IF elt(a, b) THEN b ELSE a

\* Float::min: the other operand when one is a NaN
emin(a, b) == IF a.k = "nan" THEN b ELSE IF b.k = "nan" THEN a ELSE IF elt(b, a) THEN b ELSE a

\* numerator * T::infinity() on T, IEEE 754
times_infinity(numerator) ==
    IF numerator > 0 THEN PInf ELSE IF numerator < 0 THEN NInf ELSE NaN

\* check_axis (src/src/shape/cube.rs)
cube_check_axis(origin, direction) ==
    LET tmin_numerator == -One - origin
        tmax_numerator == One - origin
        tmin == IF Abs(direction) >= EPSILON
                THEN Fin(fdiv(tmin_numerator, direction))
                ELSE times_infinity(tmin_numerator)
        tmax == IF Abs(direction) >= EPSILON
                THEN Fin(fdiv(tmax_numerator, direction))
                ELSE times_infinity(tmax_numerator)
    IN  IF elt(tmin, tmax) THEN <<tmin, tmax>> ELSE <<tmax, tmin>>

\* Cube::local_intersect
cube_local_intersect(self, ray) ==
    LET x == cube_check_axis(ray.origin.x, ray.direction.x)
        y == cube_check_axis(ray.origin.y, ray.direction.y)
        tmin == emax(x[1], y[1])
        tmax == emin(x[2], y[2])
    IN  IF elt(tmin, tmax)
        THEN << [t |-> tmin, object |-> self], [t |-> tmax, object |-> self] >>
        ELSE <<>>

\* Bounds::new
Bounds(minimum, maximum) == [minimum |-> minimum, maximum |-> maximum]

\* check_axis
check_axis(origin, direction, minimum, maximum) ==
    LET tmin_numerator == minimum - origin
        tmax_numerator == maximum - origin
        tmin == ediv(tmin_numerator, direction)
        tmax == ediv(tmax_numerator, direction)
    IN  IF elt(tmin, tmax) THEN <<tmin, tmax>> ELSE <<tmax, tmin>>

\* Bounds::check_axes
check_axes(self, ray) ==
    LET x == check_axis(ray.origin.x, ray.direction.x, self.minimum.x, self.maximum.x)
        y == check_axis(ray.origin.y, ray.direction.y, self.minimum.y, self.maximum.y)
    IN  Bounds(Vec(x[1], y[1]), Vec(x[2], y[2]))

\* Bounds::minmax
minmax(self) == <<emax(self.minimum.x, self.minimum.y), emin(self.maximum.x, self.maximum.y)>>

\* Bounds::is_intersected_with
is_intersected_with(self, ray) ==
    LET t == minmax(check_axes(self, ray))
    IN  ele(t[1], t[2])

\* Bounds::all_points: the corners of the box
all_points(self) ==
    << self.minimum, Vec(self.maximum.x, self.minimum.y),
       Vec(self.minimum.x, self.maximum.y), self.maximum >>

\* transform * p for a point p
times_point(m, p) == Vec(m.a * p.x + m.b * p.y + m.tx, m.c * p.x + m.d * p.y + m.ty)

\* Bounds::transform: the corners of the box, transformed
bounds_transform(self, transform) ==
    [k \in 1..4 |-> times_point(transform, all_points(self)[k])]

Least(S) == CHOOSE v \in S : \A w \in S : v <= w
Greatest(S) == CHOOSE v \in S : \A w \in S : w <= v

\* Bounds::from_all_points
from_all_points(points) ==
    IF points = <<>>
    THEN None
    ELSE Some(Bounds(Vec(Least({points[k].x : k \in DOMAIN points}),
                         Least({points[k].y : k \in DOMAIN points})),
                     Vec(Greatest({points[k].x : k \in DOMAIN points}),
                         Greatest({points[k].y : k \in DOMAIN points}))))

\* T::max_value(), far beyond every coordinate of the model
max_value == 1000000

\* Sphere::bounds, Plane::bounds
leaf_bounds(shape) ==
    CASE shape.kind = "Sphere" -> Bounds(Vec(-One, -One), Vec(One, One))
      [] shape.kind = "Plane" -> Bounds(Vec(-max_value, 0), Vec(max_value, 0))

\* Group::bounds, which Shape::bounds calls: the union of the bounds of the
\* children, each transformed by the transform of its child
RECURSIVE shape_bounds(_)
RECURSIVE children_points(_, _)
children_points(children, k) ==
    IF k > Len(children)
    THEN <<>>
    ELSE LET b == shape_bounds(children[k])
         IN  (IF b.some THEN bounds_transform(b.val, children[k].transform) ELSE <<>>)
                 \o children_points(children, k + 1)

group_bounds(group) == from_all_points(children_points(group.children, 1))

\* Shape::bounds
shape_bounds(shape) ==
    IF shape.kind = "Group" THEN group_bounds(shape) ELSE Some(leaf_bounds(shape))

\* Group::local_intersect
group_local_intersect(group, ray) == sort_in(<<>>, group_flat_map(group.children, ray, 1))

\* Group::local_intersect behind the pre-filter on the merged bounds
culled_local_intersect(group, ray) ==
    LET b == group_bounds(group)
    IN  IF ~b.some \/ is_intersected_with(b.val, ray)
        THEN group_local_intersect(group, ray)
        ELSE <<>>

\* ------------------------------------------------------------------------
\* ShapeWrapper: a shape and the Weak reference to the node above it
\* ------------------------------------------------------------------------

\* ShapeWrapper::new; parent is None, Some(Some(wrapper)) for a Weak that
\* upgrades, or Some(None) for a Weak whose node has been dropped
ShapeWrapper(shape, parent) == [shape |-> shape, parent |-> parent]

\* get_link for k = 1 and get_link_with_parent above it: the wrapper of
\* shapes[k] below the wrappers of shapes[1..k-1]; the nodes up to
\* shapes[dropped] no longer exist
RECURSIVE get_link(_, _, _)
get_link(shapes, k, dropped) ==
    ShapeWrapper(shapes[k],
                 IF k = 1
                 THEN None
                 ELSE IF k - 1 <= dropped
                      THEN Some(None)
                      ELSE Some(Some(get_link(shapes, k - 1, dropped))))

\* self.parent is a Weak that upgrades
has_parent(self) == self.parent.some /\ self.parent.val.some

\* world_to_object with the shape's own transform alone
world_to_object_own_only(self, point) ==
    IF invertible(self.shape.transform)
    THEN Some(inverse_times_point(self.shape.transform, point))
    ELSE None

\* ShapeWrapper::world_to_object
RECURSIVE world_to_object(_, _)
world_to_object(self, point) ==
    LET pp == Some(point)
        o == IF has_parent(self) THEN world_to_object(self.parent.val.val, point) ELSE pp
    IN  IF invertible(self.shape.transform) /\ o.some
        THEN Some(inverse_times_point(self.shape.transform, o.val))
        ELSE None

\* ShapeWrapper::normal_to_world
RECURSIVE normal_to_world(_, _)
normal_to_world(self, normal) ==
    LET ov == IF invertible(self.shape.transform)
              THEN Some(normalize(inverse_transpose_times_vector(self.shape.transform, normal)))
              ELSE None
    IN  IF has_parent(self)
        THEN IF ov.some THEN normal_to_world(self.parent.val.val, ov.val) ELSE None
        ELSE ov

\* ShapeWrapper::normal_at
wrapper_normal_at(self, world_point) ==
    LET local_point == world_to_object(self, world_point)
    IN  IF local_point.some
        THEN Some(normal_to_world(self, local_normal_at(self.shape, local_point.val)).val)
        ELSE None

\* ------------------------------------------------------------------------
\* State
\* ------------------------------------------------------------------------

VARIABLES
    objects,    \* World.objects
    light,      \* World.light.position
    recursion,  \* World.recursion (u8)
    stack,      \* the call stack below a top-level World::color_at
    pixel,      \* the colour the last top-level color_at returned
    overflow,   \* the recursion outgrew the call stack: the process is gone
    deepest,    \* deepest nesting of color_at below the current top-level call
    hitS,       \* one call of hit: its argument and its result
    preS,       \* one call of Intersection::precompute
    csgS,       \* one call of intersection_allowed and of filter_intersections
    grpS,       \* one call of Group::local_intersect: its arguments and its result
    wrapS,      \* the calls on one ShapeWrapper: their arguments and their results
    compS,      \* one call of Computation::schlick: the computation and the result
    primS,      \* one call of local_intersect on a cube, a cylinder or a cone
    objS,       \* one face line of Parser::parse_obj_file: the vertices and normals read so far, the line and the current group
    imgS,       \* one canvas: its size and pixels, whether Camera::render filled it, and the text Canvas::to_ppm made of it
    treeS       \* one tree of groups and CSG nodes, a ray, the list Shape::intersect returns and whether color_at panicked on it

worldVars == <<objects, light, recursion, stack, pixel, overflow, deepest>>

vars == <<objects, light, recursion, stack, pixel, overflow, deepest, hitS, preS, csgS, grpS, wrapS, compS, primS, objS, imgS, treeS>>

\* ------------------------------------------------------------------------
\* Bounds and input sets
\* ------------------------------------------------------------------------

\* longest intersection list handed to hit and to precompute
MaxLen == 3

\* refractive indices 1.5, 2.0 and the default material's 1.0
GlassA == Plane(Transform(-One, 1), Material(10, 90, 0, One, 150))

GlassB == Plane(Transform(One, 1), Material(20, 90, 0, One, 200))

Matte == Plane(Transform(0, 1), Material(30, 90, 0, 0, One))

\* a plane whose transform has no inverse
Singular == Plane(Transform(0, 0), Material(10, 90, 0, 0, One))

SeqsUpTo(S, n) == UNION {[1..k -> S] : k \in 0..n}

IsSorted(xs) == \A i, j \in DOMAIN xs : i < j => xs[i].t <= xs[j].t

Range(f) == {f[i] : i \in DOMAIN f}

WorldIdle ==
    /\ objects = <<>>
    /\ light = Vec(0, 0)
    /\ recursion = RECURSION_LIMIT
    /\ stack = <<>>
    /\ pixel = None
    /\ overflow = FALSE
    /\ deepest = 0

HitIdle == hitS = [v |-> <<>>, out |-> None, done |-> FALSE]

PreIdle ==
    preS = [self |-> Intersection(0, Matte), ray |-> Ray(Vec(0, 0), unit_y),
            xs |-> <<>>, out |-> None, done |-> FALSE]

\* the operands of tests::filter_intersections
UnitSphere == Sphere(Transform(0, 1), Material(10, 90, 0, 0, One))

UnitCube == Cube(Transform(0, 1), Material(10, 90, 0, 0, One))

CsgIdle ==
    csgS = [self |-> ConstructiveSolidGeometry(Transform(0, 1), "Union", UnitSphere, UnitCube),
            lhit |-> FALSE, inl |-> FALSE, inr |-> FALSE,
            allowed |-> FALSE, allowed_done |-> FALSE,
            sides |-> <<>>,
            xs |-> <<>>, result |-> <<>>, filter_done |-> FALSE]

GrpIdle ==
    grpS = [group |-> Group(identity, <<>>), ray |-> Ray(Vec(0, 0), Vec(0, One)),
            xs |-> <<>>, done |-> FALSE,
            shape |-> UnitSphere, ys |-> <<>>, ys_done |-> FALSE]

WrapIdle ==
    wrapS = [self |-> ShapeWrapper(UnitSphere, None), root |-> UnitSphere,
             point |-> Vec(0, 0), normal |-> Vec(0, One), ray |-> Ray(Vec(0, 0), Vec(0, One)),
             object |-> None, object_done |-> FALSE,
             world |-> None, world_done |-> FALSE,
             comps |-> None, comps_done |-> FALSE]

CompIdle ==
    compS = [comps |-> Computation(One, UnitSphere, Vec(0, 0), unit_y, unit_y, FALSE, unit_y, One, One),
             out |-> 0, done |-> FALSE]

PrimIdle ==
    primS = [shape |-> UnitCube, ray |-> Ray(Vec(0, 0), Vec(0, One)),
             axes |-> <<>>, lateral |-> <<>>, xs |-> <<>>, done |-> FALSE]

ObjIdle ==
    objS = [vertices |-> <<>>, normals |-> <<>>, index |-> <<>>,
            before |-> <<>>, children |-> <<>>, panicked |-> FALSE, done |-> FALSE]

ImgIdle ==
    imgS = [width |-> 0, height |-> 0, pixels |-> <<>>, tint |-> 0, rendered |-> FALSE,
            panicked |-> FALSE, ppm |-> <<>>, done |-> FALSE]

TreeIdle ==
    treeS = [shape |-> UnitSphere, ray |-> Ray(Vec(0, 0), Vec(0, One)),
             xs |-> <<>>, xs_done |-> FALSE, panicked |-> FALSE, done |-> FALSE]

\* ------------------------------------------------------------------------
\* Rendering: World::color_at and the calls below it, one frame of the call
\* stack for each color_at that has not returned yet
\* ------------------------------------------------------------------------

\* most color_at calls the call stack holds below the top-level one
MaxDepth == 8

Materials ==
    {Material(10, 0, 0, 0, One),           \* matte
     Material(10, 0, One, 0, One),         \* mirror
     Material(10, 0, 0, One, 150),         \* glass
     Material(10, 0, 0, One, One),         \* clear film
     Material(10, 0, One \div 2, One, 150)} \* reflective glass

PlaneAt(ty, m) == Plane(Transform(ty, 1), m)

\* the two planes of tests::infinite_recursion
Mirrors == <<PlaneAt(-One, Material(10, 90, One, 0, One)),
             PlaneAt(One, Material(10, 90, One, 0, One))>>

Scenes ==
    {Mirrors}
        \cup {<<PlaneAt(-One, a), PlaneAt(One, b)>> : a, b \in Materials}
        \cup {<<PlaneAt(-One, a), PlaneAt(One, a), PlaneAt(3 * One, a)>> : a \in Materials}
        \cup {<<PlaneAt(-One, a), PlaneAt(One, b), PlaneAt(3 * One, a)>> :
                  a \in {Material(10, 0, 0, 0, One)}, b \in Materials}
        \cup {<<Singular>>, <<Singular, Sphere(Transform(0, 0), Singular.material)>>}
        \cup {<<Singular, PlaneAt(One, a)>> : a \in Materials}
        \cup {<<PlaneAt(-One, a), Singular>> : a \in Materials}

\* rays a camera may cast: from below, between and above the planes, along
\* the normal, oblique (3-4-5 triangles) or parallel to the planes
Rays ==
    {Ray(Vec(0, oy), d) :
        oy \in {-2 * One, 0, 2 * One},
        d \in {Vec(0, One), Vec(0, -One), Vec(60, 80), Vec(60, -80),
               Vec(80, 60), Vec(80, -60), Vec(One, 0)}}

Frame(ray, via, d) ==
    [pc |-> "color_at", ray |-> ray, via |-> via, comps |-> None,
     shadowed |-> FALSE, surface |-> 0, reflected |-> 0, refracted |-> 0,
     nested |-> None, d_in |-> d, d_shade |-> -1, d_refl |-> -1, d_refr |-> -1]

Top == stack[Len(stack)]

Running == stack /= <<>> /\ ~overflow

\* the frame on top of the stack replaced by f
SetTop(f) == [stack EXCEPT ![Len(stack)] = f]

\* the call stack after a nested color_at is entered
Call(caller, callee) == Append(SetTop(caller), callee)

\* the call stack after the color_at on top returned color to its caller:
\* `color * r` in reflected_color, `color_at(..) * material.transparency` in
\* refracted_color
return_to_caller(stk, color) ==
    LET rest == SubSeq(stk, 1, Len(stk) - 1)
    IN  IF rest = <<>>
        THEN rest
        ELSE LET caller == rest[Len(rest)]
                 m == material(caller.comps.val.object).val
             IN  [rest EXCEPT ![Len(rest)] =
                    IF caller.pc = "reflecting"
                    THEN [caller EXCEPT !.reflected = fmul(color, m.reflective),
                                        !.nested = Some(color),
                                        !.pc = "refracted_color"]
                    ELSE [caller EXCEPT !.refracted = fmul(color, m.transparency),
                                        !.pc = "shade_hit"]]

Return(color) ==
    /\ stack' = return_to_caller(stack, color)
    /\ pixel' = IF Len(stack) = 1 THEN Some(color) ELSE pixel

\* the budget handed on as it is
not_decremented(d) == d

\* self.recursion -= 1 on a u8
decrement(d) == (d + 255) % 256

\* Camera::render: w.color_at(ray) for the next pixel
Render ==
    /\ stack = <<>>
    /\ ~overflow
    /\ \E ray \in Rays : stack' = <<Frame(ray, "render", recursion)>>
    /\ pixel' = None
    /\ deepest' = 0
    /\ UNCHANGED <<objects, light, recursion, overflow, hitS, preS, csgS, grpS, wrapS, compS, primS, objS, imgS, treeS>>

\* World::color_at up to the calls of reflected_color and refracted_color:
\* intersect, hit, precompute, and in shade_hit is_shadowed and lighting;
\* each `let` of the code is a value bound once
ColorAt ==
    /\ Running
    /\ Top.pc = "color_at"
    /\ \E xs \in {world_intersect(objects, Top.ray)} :
       \E h \in {hit(xs)} :
       \E comps \in {IF h.some THEN precompute(h.val, Top.ray, xs) ELSE None} :
          IF comps.some
          THEN \E over \in {over_point(comps.val)} :
               \E shadowed \in {is_shadowed(objects, light, over)} :
               \E surface \in {lighting(material(comps.val.object).val, light, over,
                                        comps.val.eyev, comps.val.normalv, shadowed)} :
                  /\ stack' = SetTop([Top EXCEPT !.pc = "reflected_color",
                                                 !.comps = comps,
                                                 !.shadowed = shadowed,
                                                 !.surface = surface,
                                                 !.d_shade = recursion])
                  /\ pixel' = pixel
          ELSE Return(0)
    /\ UNCHANGED <<objects, light, recursion, overflow, deepest, hitS, preS, csgS, grpS, wrapS, compS, primS, objS, imgS, treeS>>

\* the test of reflected_color without the budget
reflected_stops_unbounded(d, r) == r = 0

\* if self.recursion == 0 || r == T::zero()
reflected_stops(d, r) == d = 0 \/ r = 0

\* the test of refracted_color without the budget
refracted_stops_unbounded(d, transparency) == transparency = 0

\* if self.recursion == 0 || material.transparency == T::zero()
refracted_stops(d, transparency) == d = 0 \/ transparency = 0

\* World::reflected_color up to the nested color_at
ReflectedColor ==
    /\ Running
    /\ Top.pc = "reflected_color"
    /\ LET c == Top.comps.val
           r == material(c.object).val.reflective
       IN  IF reflected_stops(recursion, r)
           THEN /\ recursion' = RECURSION_LIMIT
                /\ stack' = SetTop([Top EXCEPT !.reflected = 0,
                                               !.d_refl = recursion,
                                               !.pc = "refracted_color"])
                /\ UNCHANGED <<overflow, deepest>>
           ELSE IF Len(stack) > MaxDepth
                THEN /\ overflow' = TRUE
                     /\ UNCHANGED <<recursion, stack, deepest>>
                ELSE LET reflect_ray == Ray(over_point(c), c.reflectv)
                     IN  /\ recursion' = decrement(recursion)
                         /\ stack' = Call([Top EXCEPT !.d_refl = recursion,
                                                      !.pc = "reflecting"],
                                          Frame(reflect_ray, "reflected_color",
                                                decrement(recursion)))
                         /\ deepest' = IF Len(stack) > deepest THEN Len(stack) ELSE deepest
                         /\ UNCHANGED overflow
    /\ UNCHANGED <<objects, light, pixel, hitS, preS, csgS, grpS, wrapS, compS, primS, objS, imgS, treeS>>

\* World::refracted_color up to the nested color_at
RefractedColor ==
    /\ Running
    /\ Top.pc = "refracted_color"
    /\ LET c == Top.comps.val
           mat == material(c.object).val
       IN  IF refracted_stops(recursion, mat.transparency)
           THEN /\ recursion' = RECURSION_LIMIT
                /\ stack' = SetTop([Top EXCEPT !.refracted = 0,
                                               !.d_refr = recursion,
                                               !.pc = "shade_hit"])
                /\ UNCHANGED <<overflow, deepest>>
           ELSE IF sin2_t(c) > One
                THEN /\ stack' = SetTop([Top EXCEPT !.refracted = 0,
                                                    !.d_refr = recursion,
                                                    !.pc = "shade_hit"])
                     /\ UNCHANGED <<recursion, overflow, deepest>>
                ELSE IF Len(stack) > MaxDepth
                     THEN /\ overflow' = TRUE
                          /\ UNCHANGED <<recursion, stack, deepest>>
                     ELSE LET direction ==
                                  vsub(vscale(c.normalv,
                                              fmul(n_ratio(c), cos_i(c)) - cos_t(c)),
                                       vscale(c.eyev, n_ratio(c)))
                              refracted_ray == Ray(under_point(c), direction)
                          IN  /\ recursion' = decrement(recursion)
                              /\ stack' = Call([Top EXCEPT !.d_refr = recursion,
                                                           !.pc = "refracting"],
                                               Frame(refracted_ray, "refracted_color",
                                                     decrement(recursion)))
                              /\ deepest' = IF Len(stack) > deepest THEN Len(stack) ELSE deepest
                              /\ UNCHANGED overflow
    /\ UNCHANGED <<objects, light, pixel, hitS, preS, csgS, grpS, wrapS, compS, primS, objS, imgS, treeS>>

\* the plain sum, whatever the material
shade_hit_plain_sum(f) == f.surface + f.reflected + f.refracted

\* the sum shade_hit returns
shade_hit_color(f) ==
    LET mat == material(f.comps.val.object).val
    IN  IF mat.reflective > 0 /\ mat.transparency > 0
        THEN LET reflectance == schlick(f.comps.val)
             IN  f.surface + fmul(f.reflected, reflectance)
                           + fmul(f.refracted, One - reflectance)
        ELSE f.surface + f.reflected + f.refracted

\* the end of World::shade_hit, which is the end of the color_at that called it
ShadeHit ==
    /\ Running
    /\ Top.pc = "shade_hit"
    /\ Return(shade_hit_color(Top))
    /\ UNCHANGED <<objects, light, recursion, overflow, deepest, hitS, preS, csgS, grpS, wrapS, compS, primS, objS, imgS, treeS>>

Init ==
    /\ objects \in Scenes
    /\ light = Vec(0, 0)
    /\ recursion = RECURSION_LIMIT
    /\ stack = <<>>
    /\ pixel = None
    /\ overflow = FALSE
    /\ deepest = 0
    /\ HitIdle
    /\ TreeIdle
    /\ ImgIdle
    /\ ObjIdle
    /\ PrimIdle
    /\ PreIdle
    /\ CsgIdle
    /\ GrpIdle
    /\ WrapIdle
    /\ CompIdle

Next == Render \/ ColorAt \/ ReflectedColor \/ RefractedColor \/ ShadeHit

Spec == Init /\ [][Next]_vars

\* two mirrors facing each other, as in tests::infinite_recursion, and the
\* same pair moved up
MirrorScenes ==
    {Mirrors,
     <<PlaneAt(One, Material(10, 90, One, 0, One)),
       PlaneAt(3 * One, Material(10, 90, One, 0, One))>>}

MirrorsInit ==
    /\ objects \in MirrorScenes
    /\ light = Vec(0, 0)
    /\ recursion = RECURSION_LIMIT
    /\ stack = <<>>
    /\ pixel = None
    /\ overflow = FALSE
    /\ deepest = 0
    /\ HitIdle
    /\ TreeIdle
    /\ ImgIdle
    /\ ObjIdle
    /\ PrimIdle
    /\ PreIdle
    /\ CsgIdle
    /\ GrpIdle
    /\ WrapIdle
    /\ CompIdle

\* a call that was entered runs on: the engine is sequential and never waits
SpecMirrors ==
    MirrorsInit /\ [][Next]_vars
        /\ WF_vars(ColorAt \/ ReflectedColor \/ RefractedColor \/ ShadeHit)

\* ------------------------------------------------------------------------
\* Claims about the recursion budget
\* ------------------------------------------------------------------------

\* C1: in a world of two parallel planes with reflective = 1 and
\* transparency = 0 every top-level color_at returns, whatever the ray, and
\* the chain reflected_color -> color_at never nests deeper than the budget.
C1_MirrorsTerminate ==
    /\ [](deepest <= RECURSION_LIMIT /\ ~overflow)
    /\ (stack /= <<>>) ~> (stack = <<>> /\ pixel.some)

\* C1 witness: a call between the mirrors used the whole budget and returned
C1_Witness ==
    /\ objects \in MirrorScenes
    /\ stack = <<>>
    /\ pixel.some
    /\ deepest = RECURSION_LIMIT

\* C2: the nesting depth of the color_at calls below one top-level color_at
\* never exceeds RECURSION_LIMIT, whatever mix of reflected_color and
\* refracted_color branches is taken.
C2_NestingWithinLimit == deepest <= RECURSION_LIMIT /\ ~overflow

\* C3: when a top-level color_at has returned, the World's recursion budget
\* is RECURSION_LIMIT again, so the next pixel starts with the full budget.
C3_BudgetRestored == (stack = <<>> /\ ~overflow) => recursion = RECURSION_LIMIT

\* C4: within one shade_hit the budget refracted_color tests against 0 is the
\* budget shade_hit was entered with, whatever reflected_color did before.
C4_SameBudgetForBoth ==
    \A i \in DOMAIN stack : stack[i].d_refr >= 0 => stack[i].d_refr = stack[i].d_shade

\* C28: in every state reachable through color_at, shade_hit,
\* reflected_color and refracted_color the u8 counter satisfies
\* 0 <= recursion <= RECURSION_LIMIT; it is decremented only when it is
\* greater than 0, so it never wraps around.
C28_CounterInRange ==
    /\ [](recursion \in 0..RECURSION_LIMIT)
    /\ [][recursion' /= recursion =>
            \/ recursion' = RECURSION_LIMIT
            \/ (recursion > 0 /\ recursion' = recursion - 1)]_vars

\* C28 witness: the counter is at 0 inside a reflected_color or a
\* refracted_color, which is about to test it
C28_Witness ==
    /\ stack /= <<>>
    /\ recursion = 0
    /\ Top.pc \in {"reflected_color", "refracted_color"}

\* refracted_color has returned in frame f
RefractedReturned(f) == f.pc = "shade_hit"

\* reflected_color has returned in frame f
ReflectedReturned(f) == f.pc \in {"refracted_color", "refracting", "shade_hit"}

Mat(f) == f.comps.val.object.material

\* C5: refracted_color returns the zero colour whenever the material's
\* transparency is 0 or the budget it finds is 0, whatever the geometry and
\* the values of n1 and n2; it casts no refracted ray in that case.
C5_RefractedZero ==
    \A i \in DOMAIN stack :
        (stack[i].comps.some
            /\ (stack[i].d_refr = 0 \/ Mat(stack[i]).transparency = 0)) =>
            /\ stack[i].pc /= "refracting"
            /\ RefractedReturned(stack[i]) => stack[i].refracted = 0

\* C5 witness: a transparent surface that would refract (no total internal
\* reflection, n1 /= n2) found the budget at 0 and got the zero colour
C5_Witness ==
    /\ stack /= <<>>
    /\ RefractedReturned(Top)
    /\ Top.d_refr = 0
    /\ Mat(Top).transparency > 0
    /\ sin2_t(Top.comps.val) <= One
    /\ Top.comps.val.n1 /= Top.comps.val.n2
    /\ Top.refracted = 0

\* C6: reflected_color returns the zero colour when the budget d it finds is
\* 0 or reflective is 0; otherwise it returns reflective times the result of
\* color_at on the ray from over_point along reflectv, and that color_at is
\* entered with budget d - 1.
C6_ReflectedColor ==
    \A i \in DOMAIN stack :
        LET f == stack[i]
        IN  /\ ReflectedReturned(f) =>
                IF f.d_refl = 0 \/ Mat(f).reflective = 0
                THEN f.reflected = 0 /\ ~f.nested.some
                ELSE f.nested.some /\ f.reflected = fmul(f.nested.val, Mat(f).reflective)
            /\ f.pc = "reflecting" =>
                /\ f.d_refl > 0
                /\ Mat(f).reflective /= 0
                /\ i < Len(stack)
                /\ stack[i + 1].via = "reflected_color"
                /\ stack[i + 1].ray = Ray(over_point(f.comps.val), f.comps.val.reflectv)
                /\ stack[i + 1].d_in = f.d_refl - 1

\* C6 witness: a half-reflective surface got half of a colour that is not zero
\* from a color_at that ran with the budget less one
C6_Witness ==
    /\ stack /= <<>>
    /\ ReflectedReturned(Top)
    /\ Top.d_refl = 3
    /\ Mat(Top).reflective = One \div 2
    /\ Top.nested.some
    /\ Top.nested.val > 0
    /\ Top.reflected = Top.nested.val \div 2

\* ------------------------------------------------------------------------
\* hit, called once on any list (sorted or not)
\* ------------------------------------------------------------------------

HitTs == {-1, 0, EPSILON - 1, EPSILON, EPSILON + 1}

HitInit ==
    /\ WorldIdle
    /\ TreeIdle
    /\ ImgIdle
    /\ ObjIdle
    /\ PrimIdle
    /\ PreIdle
    /\ CsgIdle
    /\ GrpIdle
    /\ WrapIdle
    /\ CompIdle
    /\ \E v \in SeqsUpTo({Intersection(t, o) : t \in HitTs, o \in {GlassA, Matte}}, MaxLen) :
          hitS = [v |-> v, out |-> None, done |-> FALSE]

Hit ==
    /\ ~hitS.done
    /\ hitS' = [hitS EXCEPT !.out = hit(hitS.v), !.done = TRUE]
    /\ UNCHANGED <<worldVars, preS, csgS, grpS, wrapS, compS, primS, objS, imgS, treeS>>

HitNext == Hit

SpecHit == HitInit /\ [][HitNext]_vars

\* ------------------------------------------------------------------------
\* precompute, called once with a target and a sorted list
\* ------------------------------------------------------------------------

PreTs == {EPSILON + 1, EPSILON + 2, EPSILON + 3}

PreShapes == {GlassA, GlassB, Matte, Singular}

PreInit ==
    /\ WorldIdle
    /\ TreeIdle
    /\ ImgIdle
    /\ ObjIdle
    /\ PrimIdle
    /\ HitIdle
    /\ CsgIdle
    /\ GrpIdle
    /\ WrapIdle
    /\ CompIdle
    /\ \E xs \in SeqsUpTo({Intersection(t, o) : t \in PreTs, o \in PreShapes \ {Singular}}, MaxLen),
          self \in {Intersection(t, o) : t \in PreTs, o \in PreShapes},
          dy \in {One, -One} :
          /\ IsSorted(xs)
          /\ preS = [self |-> self, ray |-> Ray(Vec(0, 0), Vec(0, dy)),
                     xs |-> xs, out |-> None, done |-> FALSE]

Precompute ==
    /\ ~preS.done
    /\ preS' = [preS EXCEPT !.out = precompute(preS.self, preS.ray, preS.xs),
                            !.done = TRUE]
    /\ UNCHANGED <<worldVars, hitS, csgS, grpS, wrapS, compS, primS, objS, imgS, treeS>>

PreNext == Precompute

SpecPrecompute == PreInit /\ [][PreNext]_vars

\* ------------------------------------------------------------------------
\* Claims about hit and precompute
\* ------------------------------------------------------------------------

\* the indices of v whose t is at least / strictly above the epsilon
AtLeastEps(v) == {i \in DOMAIN v : v[i].t >= EPSILON}

AboveEps(v) == {i \in DOMAIN v : v[i].t > EPSILON}

\* out is the smallest-t intersection of v among the indices ok, or none
SmallestAmong(v, ok, out) ==
    IF ok = {}
    THEN out = None
    ELSE /\ out.some
         /\ \E i \in ok : out.val = v[i]
         /\ \A j \in ok : out.val.t <= v[j].t

\* C7 as stated: hit returns the intersection with the smallest t among
\* those whose t is strictly above the epsilon, and none when there is no
\* such t (all t negative, zero or equal to the epsilon).
C7_HitStrictlyAboveEpsilon ==
    hitS.done => SmallestAmong(hitS.v, AboveEps(hitS.v), hitS.out)

\* C7 amended: hit returns the intersection with the smallest t among those
\* whose t is greater than or equal to the epsilon, and none when every t
\* is below the epsilon; the list need not be sorted.
C7_HitAtLeastEpsilon ==
    hitS.done => SmallestAmong(hitS.v, AtLeastEps(hitS.v), hitS.out)

\* C7 witness: an unsorted list whose smallest accepted t equals the epsilon
C7_Witness ==
    /\ hitS.done
    /\ Len(hitS.v) = 3
    /\ hitS.v[1].t > hitS.v[2].t
    /\ hitS.v[3].t < 0
    /\ hitS.out.some
    /\ hitS.out.val.t = EPSILON

\* the stack of shapes the claim describes: toggle the shapes of xs[1..k]
RECURSIVE toggled_stack(_, _)
toggled_stack(xs, k) ==
    IF k = 0
    THEN <<>>
    ELSE LET s == toggled_stack(xs, k - 1)
             o == xs[k].object
         IN  IF o \in Range(s)
             THEN SelectSeq(s, LAMBDA x : x /= o)
             ELSE Append(s, o)

\* refractive index of the last shape of the stack, 1.0 for the empty stack
stack_index(s) == IF s = <<>> THEN One ELSE s[Len(s)].material.refractive_index

\* n1, n2 of the result are those the claim gives for position k
IndicesAt(k) ==
    /\ preS.out.val.n1 = stack_index(toggled_stack(preS.xs, k - 1))
    /\ preS.out.val.n2 = stack_index(toggled_stack(preS.xs, k))
    /\ preS.out = precompute(preS.self, preS.ray, SubSeq(preS.xs, 1, k))

\* C8 as stated: for a target at position k of the sorted list, n1 is the
\* refractive index of the last shape of the stack got by toggling the shapes
\* of the entries before k (1.0 if empty), n2 the same after toggling entry k
\* too, and the entries after k do not matter.
C8_IndicesAtAnyPosition ==
    (preS.done /\ preS.out.some) =>
        \A k \in DOMAIN preS.xs : preS.xs[k] = preS.self => IndicesAt(k)

\* C8 amended: the same, for k the first position of the list that holds an
\* intersection equal to the target (same t, equal shape).
C8_IndicesAtFirstEqualPosition ==
    (preS.done /\ preS.out.some) =>
        \A k \in DOMAIN preS.xs :
            (preS.xs[k] = preS.self /\ \A j \in 1..(k - 1) : preS.xs[j] /= preS.self)
                => IndicesAt(k)

\* C8 witness: the target is the third entry, its shape was entered at the
\* first entry and another shape at the second, so n1 = n2 = that shape's index
C8_Witness ==
    /\ preS.done
    /\ preS.out.some
    /\ Len(preS.xs) = 3
    /\ preS.xs[3] = preS.self
    /\ preS.xs[1].object = preS.self.object
    /\ preS.xs[1].t < preS.self.t
    /\ preS.xs[2].object = GlassB
    /\ preS.self.object = GlassA
    /\ preS.out.val.n1 = 200
    /\ preS.out.val.n2 = 200

\* C9 as stated: precompute with a target that is not in the list fails
\* fast: no Computation is produced.
C9_AbsentTargetFails ==
    (preS.done /\ preS.self \notin Range(preS.xs)) => ~preS.out.some

\* C9 amended: precompute does not check that the target is in the list: it
\* produces a Computation whenever the target's shape has an invertible
\* transform, whether or not the target is in the list.
C9_AbsentTargetStillComputes ==
    preS.done => (preS.out.some <=> invertible(preS.self.object.transform))

\* C9 witness: a Computation produced for a target missing from a list that
\* is not empty
C9_Witness ==
    /\ preS.done
    /\ preS.xs /= <<>>
    /\ preS.self \notin Range(preS.xs)
    /\ preS.out.some

\* C24: when the target is not in the list passed to precompute (an empty
\* list included), precompute does not fail for it: it returns a Computation
\* with n1 = 1 and n2 = 1 (vacuum); the only None is the one normal_at gives
\* for a shape without an inverse, whatever the list.
C24_AbsentTargetInVacuum ==
    (preS.done /\ preS.self \notin Range(preS.xs)) =>
        /\ preS.out.some <=> normal_at(preS.self.object, position(preS.ray, preS.self.t)).some
        /\ preS.out.some => (preS.out.val.n1 = One /\ preS.out.val.n2 = One)

\* C24 witness: a target missing from a list that holds hits on a shape
\* of another refractive index, computed as in vacuum
C24_Witness ==
    /\ preS.done
    /\ preS.self \notin Range(preS.xs)
    /\ \E k \in DOMAIN preS.xs : preS.xs[k].object.material.refractive_index /= One
    /\ preS.out.some
    /\ preS.out.val.n1 = One
    /\ preS.out.val.n2 = One

\* ------------------------------------------------------------------------
\* intersection_allowed on any arguments, filter_intersections on any
\* t-ordered list of hits on the two operands
\* ------------------------------------------------------------------------

\* longest list of hits handed to filter_intersections
MaxHits == 4

\* hits at t = 1, 2, ... on the given shapes, in order
HitsOn(shapes) == [k \in DOMAIN shapes |-> Intersection(k * One, shapes[k])]

\* the operands a CSG node is built from: get_link(shape.clone()) makes a
\* node of its own for each operand, so the two may hold equal shapes
Operands == {UnitSphere, UnitCube}

\* the operand each hit of a list came from
Sides == {"L", "R"}

CsgInit ==
    /\ WorldIdle
    /\ TreeIdle
    /\ ImgIdle
    /\ ObjIdle
    /\ PrimIdle
    /\ HitIdle
    /\ PreIdle
    /\ GrpIdle
    /\ WrapIdle
    /\ CompIdle
    /\ \E op \in Operation, lhit, inl, inr \in BOOLEAN,
          left \in Operands, right \in Operands,
          sides \in SeqsUpTo(Sides, MaxHits) :
          csgS = [self |-> ConstructiveSolidGeometry(Transform(0, 1), op, left, right),
                  lhit |-> lhit, inl |-> inl, inr |-> inr,
                  allowed |-> FALSE, allowed_done |-> FALSE,
                  sides |-> sides,
                  xs |-> HitsOn([k \in DOMAIN sides |->
                                    IF sides[k] = "L" THEN left ELSE right]),
                  result |-> <<>>, filter_done |-> FALSE]

IntersectionAllowed ==
    /\ ~csgS.allowed_done
    /\ csgS' = [csgS EXCEPT
                  !.allowed = intersection_allowed(csgS.self.op, csgS.lhit, csgS.inl, csgS.inr),
                  !.allowed_done = TRUE]
    /\ UNCHANGED <<worldVars, hitS, preS, grpS, wrapS, compS, primS, objS, imgS, treeS>>

FilterIntersections ==
    /\ ~csgS.filter_done
    /\ csgS' = [csgS EXCEPT !.result = filter_intersections(csgS.self, csgS.xs),
                            !.filter_done = TRUE]
    /\ UNCHANGED <<worldVars, hitS, preS, grpS, wrapS, compS, primS, objS, imgS, treeS>>

CsgNext == IntersectionAllowed \/ FilterIntersections

SpecCsg == CsgInit /\ [][CsgNext]_vars

\* the truth table of the claim: the triples <<lhit, inl, inr>> that are kept
KeepTable(op) ==
    CASE op = "Union" ->
            {<<TRUE, FALSE, FALSE>>, <<TRUE, TRUE, FALSE>>,
             <<FALSE, FALSE, FALSE>>, <<FALSE, FALSE, TRUE>>}
      [] op = "Intersect" ->
            {<<TRUE, FALSE, TRUE>>, <<TRUE, TRUE, TRUE>>,
             <<FALSE, TRUE, FALSE>>, <<FALSE, TRUE, TRUE>>}
      [] op = "Difference" ->
            {<<TRUE, FALSE, FALSE>>, <<TRUE, TRUE, FALSE>>,
             <<FALSE, TRUE, FALSE>>, <<FALSE, TRUE, TRUE>>}

\* C10: for each of the 3 x 8 argument combinations intersection_allowed
\* answers as the fixed truth table does: Union keeps iff (lhit and not inr)
\* or (not lhit and not inl), Intersect iff (lhit and inr) or (not lhit and
\* inl), Difference iff (lhit and not inr) or (not lhit and inl).
C10_TruthTable ==
    csgS.allowed_done =>
        (csgS.allowed <=> <<csgS.lhit, csgS.inl, csgS.inr>> \in KeepTable(csgS.self.op))

\* C10 witness: Difference keeps a right-operand hit made inside the left one
C10_Witness ==
    /\ csgS.allowed_done
    /\ csgS.self.op = "Difference"
    /\ ~csgS.lhit
    /\ csgS.inl
    /\ csgS.inr
    /\ csgS.allowed

\* the hits of xs at the (1-based) positions keep, in their order
HitsAt(xs, keep) == SelectSeq(xs, LAMBDA i : \E k \in keep : xs[k] = i /\ i.t = k * One)

\* the positions the filter table gives for hits made by L, R, L, R
TableOf(op) ==
    CASE op = "Union" -> {1, 4}
      [] op = "Intersect" -> {2, 3}
      [] op = "Difference" -> {1, 2}

\* C11: for a CSG node with operands L and R and four t-ordered hits made
\* by L, R, L, R, filter_intersections keeps exactly the hits at indices
\* {0,3} for Union, {1,2} for Intersect and {0,1} for Difference, in order.
C11_FilterTable ==
    (csgS.filter_done /\ csgS.sides = <<"L", "R", "L", "R">>) =>
        csgS.result = HitsAt(csgS.xs, TableOf(csgS.self.op))

\* the lhit filter_intersections computes for the k-th hit of its list
LhitOf(self, xs, k) == include(self.left, xs[k].object)

\* C25: for a CSG node whose operands are distinct nodes, lhit is true for
\* exactly the hits the left operand produced and false for exactly those
\* the right operand produced, also when the right operand holds a leaf that
\* is structurally equal to a leaf of the left one.
C25_LhitIsTheLeftOperand ==
    csgS.filter_done =>
        \A k \in DOMAIN csgS.xs :
            LhitOf(csgS.self, csgS.xs, k) <=> (csgS.sides[k] = "L")

\* whether a point is inside the solid of the operation, given whether it
\* is inside the left and the right operand
InsideSolid(op, inl, inr) ==
    CASE op = "Union" -> inl \/ inr
      [] op = "Intersect" -> inl /\ inr
      [] op = "Difference" -> inl /\ ~inr

\* the hits among the first n of xs that are classified left (TRUE) or
\* right (FALSE)
ClassifiedAs(self, xs, n, left) == {j \in 1..n : LhitOf(self, xs, j) = left}

Odd(n) == n % 2 = 1

\* crossing the k-th hit changes whether the ray is inside the solid: the
\* ray starts outside both operands and every hit toggles its operand
CrossingChangesInside(self, xs, k) ==
    LET inl == Odd(Cardinality(ClassifiedAs(self, xs, k - 1, TRUE)))
        inr == Odd(Cardinality(ClassifiedAs(self, xs, k - 1, FALSE)))
    IN  IF LhitOf(self, xs, k)
        THEN InsideSolid(self.op, inl, inr) /= InsideSolid(self.op, ~inl, inr)
        ELSE InsideSolid(self.op, inl, inr) /= InsideSolid(self.op, inl, ~inr)

\* C27: for every t-ordered list of hits, each classified left or right,
\* filter_intersections keeps a hit if and only if crossing it changes
\* whether the ray is inside the solid (inL or inR for Union, inL and inR
\* for Intersect, inL and not inR for Difference), and keeps the order;
\* hence with an even number of hits of each class the number kept is even.
C27_KeptIffInsideChanges ==
    csgS.filter_done =>
        LET self == csgS.self
            xs == csgS.xs
            kept == {k \in DOMAIN xs : CrossingChangesInside(self, xs, k)}
        IN  /\ csgS.result = SelectSeq(xs, LAMBDA i : \E k \in kept : xs[k] = i)
            /\ (~Odd(Cardinality(ClassifiedAs(self, xs, Len(xs), TRUE)))
                /\ ~Odd(Cardinality(ClassifiedAs(self, xs, Len(xs), FALSE))))
                  => ~Odd(Len(csgS.result))

\* C27 witness: a Difference of a sphere and a cube with the hits L, R, L, R
\* keeps the first two: entering the sphere and entering the cube
C27_Witness ==
    /\ csgS.filter_done
    /\ csgS.self.op = "Difference"
    /\ csgS.self.left /= csgS.self.right
    /\ csgS.sides = <<"L", "R", "L", "R">>
    /\ Len(csgS.result) = 2
    /\ csgS.result[1] = csgS.xs[1]
    /\ csgS.result[2] = csgS.xs[2]

\* ------------------------------------------------------------------------
\* Groups: Group::local_intersect on a group of spheres and planes
\* ------------------------------------------------------------------------

\* most children of a group
MaxChildren == 2

\* the children: the unit sphere, a sphere moved up by 3, a sphere twice
\* as large, the plane y = 0
GrpChildren ==
    {UnitSphere,
     Sphere(Transform(3 * One, 1), UnitSphere.material),
     Sphere(Transform(0, 2), UnitSphere.material),
     Matte}

\* rays along y, along x and along (0.6, 0.8), from outside every child
GrpRays ==
    {Ray(Vec(x, -5 * One), Vec(0, One)) : x \in {-2 * One, -One, 0, 50, One, 2 * One, 3 * One}}
        \cup {Ray(Vec(-5 * One, y), Vec(One, 0)) : y \in {-One, 0, One, 2 * One, 3 * One}}
        \cup {Ray(Vec(-3 * One, -4 * One), Vec(60, 80))}

\* a scaling, a translation along x, a non-uniform scaling, a quarter turn
GrpTransforms ==
    {Transform(0, 2), Matrix(1, 0, 0, 1, One, 0), Matrix(1, 0, 0, 2, 0, 0), Matrix(0, -1, 1, 0, 0, 0)}

\* the shapes Shape::intersect is called on: a sphere, a plane and a group
\* under each of the transforms
GrpShapes ==
    UNION {{Sphere(t, UnitSphere.material), Plane(t, Matte.material),
            Group(t, <<UnitSphere, Matte>>)} : t \in GrpTransforms}

GrpInit ==
    /\ WorldIdle
    /\ TreeIdle
    /\ ImgIdle
    /\ ObjIdle
    /\ PrimIdle
    /\ HitIdle
    /\ PreIdle
    /\ CsgIdle
    /\ WrapIdle
    /\ CompIdle
    /\ \E children \in SeqsUpTo(GrpChildren, MaxChildren), ray \in GrpRays, shape \in GrpShapes :
          grpS = [group |-> Group(identity, children), ray |-> ray,
                  xs |-> <<>>, done |-> FALSE,
                  shape |-> shape, ys |-> <<>>, ys_done |-> FALSE]

\* Group::local_intersect
LocalIntersect ==
    /\ ~grpS.done
    /\ grpS' = [grpS EXCEPT !.xs = group_local_intersect(grpS.group, grpS.ray),
                            !.done = TRUE]
    /\ UNCHANGED <<worldVars, hitS, preS, csgS, wrapS, compS, primS, objS, imgS, treeS>>

\* Shape::intersect
Intersect ==
    /\ ~grpS.ys_done
    /\ grpS' = [grpS EXCEPT !.ys = shape_intersect(grpS.shape, grpS.ray),
                            !.ys_done = TRUE]
    /\ UNCHANGED <<worldVars, hitS, preS, csgS, wrapS, compS, primS, objS, imgS, treeS>>

GrpNext == LocalIntersect \/ Intersect

SpecGroup == GrpInit /\ [][GrpNext]_vars

CullingLosesOnlyOnAFace ==
    (grpS.done /\ culled_local_intersect(grpS.group, grpS.ray) /= grpS.xs) =>
        LET b == group_bounds(grpS.group).val
            r == grpS.ray
        IN  \/ r.direction.x = 0 /\ r.origin.x \in {b.minimum.x, b.maximum.x}
            \/ r.direction.y = 0 /\ r.origin.y \in {b.minimum.y, b.maximum.y}

\* ------------------------------------------------------------------------
\* Scene graphs: ShapeWrapper::world_to_object and normal_to_world on a
\* sphere below a chain of groups
\* ------------------------------------------------------------------------

\* most nodes on a chain, the leaf included
MaxChain == 3

\* translations along y and along x, a uniform and a non-uniform scaling,
\* a quarter turn, and a matrix that has no inverse
WrapTransforms ==
    {Matrix(1, 0, 0, 1, 0, One), Matrix(1, 0, 0, 1, 2 * One, 0),
     Matrix(2, 0, 0, 2, 0, 0), Matrix(1, 0, 0, 2, 0, 0),
     Matrix(0, -1, 1, 0, 0, 0), Matrix(1, 0, 0, 0, 0, 0)}

WrapPoints == {Vec(4 * One, 6 * One), Vec(-3 * One, One)}

WrapNormals == {Vec(One, 0), Vec(60, 80)}

\* the chain of the given transforms: groups above a sphere
ChainShapes(transforms) ==
    [k \in DOMAIN transforms |->
        IF k = Len(transforms)
        THEN Sphere(transforms[k], UnitSphere.material)
        ELSE Group(transforms[k], <<>>)]

\* push: the groups of the given transforms, each the only child of the
\* one above it, around the sphere
RECURSIVE Nest(_, _)
Nest(transforms, k) ==
    IF k = Len(transforms)
    THEN Sphere(transforms[k], UnitSphere.material)
    ELSE Group(transforms[k], <<Nest(transforms, k + 1)>>)

\* rays along y and along x
WrapRays == {Ray(Vec(250, -5 * One), Vec(0, One)), Ray(Vec(-5 * One, 50), Vec(One, 0))}

\* the direction v in the object space of the node k of the chain
RECURSIVE direction_below(_, _, _)
direction_below(transforms, v, k) ==
    IF k = 0
    THEN v
    ELSE inverse_times_vector(transforms[k], direction_below(transforms, v, k - 1))

\* the chain leaves the ray a direction that T resolves: its squared
\* length in the object space of the sphere is not rounded to zero
Resolved(transforms, ray) ==
    IF \E k \in DOMAIN transforms : ~invertible(transforms[k])
    THEN TRUE
    ELSE LET d == direction_below(transforms, ray.direction, Len(transforms))
         IN  dot(d, d) > 0

WrapInit ==
    /\ WorldIdle
    /\ TreeIdle
    /\ ImgIdle
    /\ ObjIdle
    /\ PrimIdle
    /\ HitIdle
    /\ PreIdle
    /\ CsgIdle
    /\ GrpIdle
    /\ CompIdle
    /\ \E transforms \in SeqsUpTo(WrapTransforms, MaxChain) \ {<<>>},
          point \in WrapPoints, normal \in WrapNormals, ray \in WrapRays :
          \E dropped \in 0..(Len(transforms) - 1) :
              /\ Resolved(transforms, ray)
              /\ wrapS = [self |-> get_link(ChainShapes(transforms), Len(transforms), dropped),
                          root |-> Nest(SubSeq(transforms, dropped + 1, Len(transforms)), 1),
                          point |-> point, normal |-> normal, ray |-> ray,
                          object |-> None, object_done |-> FALSE,
                          world |-> None, world_done |-> FALSE,
                          comps |-> None, comps_done |-> FALSE]

\* ShapeWrapper::world_to_object
WorldToObject ==
    /\ ~wrapS.object_done
    /\ wrapS' = [wrapS EXCEPT !.object = world_to_object(wrapS.self, wrapS.point),
                              !.object_done = TRUE]
    /\ UNCHANGED <<worldVars, hitS, preS, csgS, grpS, compS, primS, objS, imgS, treeS>>

\* ShapeWrapper::normal_to_world
NormalToWorld ==
    /\ ~wrapS.world_done
    /\ wrapS' = [wrapS EXCEPT !.world = normal_to_world(wrapS.self, wrapS.normal),
                              !.world_done = TRUE]
    /\ UNCHANGED <<worldVars, hitS, preS, csgS, grpS, compS, primS, objS, imgS, treeS>>

\* World::color_at down to Intersection::precompute, on the world of the
\* topmost node alone
PrecomputeHit ==
    /\ ~wrapS.comps_done
    /\ \E xs \in {world_intersect(<<wrapS.root>>, wrapS.ray)} :
       \E h \in {hit(xs)} :
          wrapS' = [wrapS EXCEPT !.comps = IF h.some
                                          THEN precompute(h.val, wrapS.ray, xs)
                                          ELSE None,
                                !.comps_done = TRUE]
    /\ UNCHANGED <<worldVars, hitS, preS, csgS, grpS, compS, primS, objS, imgS, treeS>>

WrapNext == WorldToObject \/ NormalToWorld \/ PrecomputeHit

SpecWrapper == WrapInit /\ [][WrapNext]_vars

\* the transforms of the nodes from the topmost ancestor down to self
RECURSIVE ChainOf(_)
ChainOf(self) ==
    IF has_parent(self)
    THEN Append(ChainOf(self.parent.val.val), self.shape.transform)
    ELSE <<self.shape.transform>>

\* p mapped by the inverses of chain[1], ..., chain[k], in this order
RECURSIVE RootFirst(_, _, _)
RootFirst(chain, p, k) ==
    IF k = 0 THEN p ELSE inverse_times_point(chain[k], RootFirst(chain, p, k - 1))

\* n mapped by the inverse-transposes of chain[Len(chain)], ..., chain[k],
\* in this order, normalized after each
RECURSIVE LeafFirst(_, _, _)
LeafFirst(chain, n, k) ==
    IF k > Len(chain)
    THEN n
    ELSE normalize(inverse_transpose_times_vector(chain[k], LeafFirst(chain, n, k + 1)))

\* C13: below a chain of ancestors whose transforms all have an inverse,
\* world_to_object maps the point by the inverse of every node once, the
\* root first and the leaf last, and normal_to_world maps the normal by
\* the inverse-transpose of every node once, the leaf first and the root
\* last; the chain ends at the node without a parent.
C13_ChainOrder ==
    LET chain == ChainOf(wrapS.self)
    IN  (\A k \in DOMAIN chain : invertible(chain[k])) =>
            /\ wrapS.object_done =>
                   wrapS.object = Some(RootFirst(chain, wrapS.point, Len(chain)))
            /\ wrapS.world_done =>
                   wrapS.world = Some(LeafFirst(chain, wrapS.normal, 1))

\* both calls have returned on a sphere below two groups whose transforms
\* do not commute
C13_Witness ==
    /\ wrapS.object_done
    /\ wrapS.world_done
    /\ ChainOf(wrapS.self) =
           <<Matrix(0, -1, 1, 0, 0, 0), Matrix(1, 0, 0, 2, 0, 0), Matrix(1, 0, 0, 1, 2 * One, 0)>>
    /\ wrapS.object.some
    /\ wrapS.world.some

\* C14: the normal Intersection::precompute uses for a hit on a shape
\* inside groups is the normal of ShapeWrapper::normal_at, through the
\* transforms of all the ancestors, turned towards the eye.
C14_NormalThroughChain ==
    (wrapS.comps_done /\ wrapS.comps.some) =>
        LET n == wrapper_normal_at(wrapS.self, wrapS.comps.val.point)
        IN  /\ n.some
            /\ wrapS.comps.val.normalv \in {n.val, vneg(n.val)}

Handed(color) ==
    IF Len(stack) = 1
    THEN pixel' = Some(color)
    ELSE LET caller == stack[Len(stack) - 1]
         IN  IF caller.pc = "reflecting"
             THEN stack'[Len(stack) - 1].nested = Some(color)
             ELSE stack'[Len(stack) - 1].refracted = fmul(color, Mat(caller).transparency)

\* C16: shade_hit returns surface + reflected * rf + refracted * (1 - rf)
\* with rf = schlick() exactly when the material of the hit has both
\* reflective > 0 and transparency > 0, and surface + reflected + refracted
\* in every other case.
C16_ShadeHitBlend ==
    [][(Running /\ Top.pc = "shade_hit") =>
          LET rf == schlick(Top.comps.val)
          IN  IF Mat(Top).reflective > 0 /\ Mat(Top).transparency > 0
              THEN Handed(Top.surface + fmul(Top.reflected, rf)
                                      + fmul(Top.refracted, One - rf))
              ELSE Handed(Top.surface + Top.reflected + Top.refracted)]_vars

\* a shade_hit on reflective glass is about to return with a reflected and
\* a refracted colour and a reflectance strictly between 0 and 1
C16_Witness ==
    /\ Running
    /\ Top.pc = "shade_hit"
    /\ Mat(Top).reflective > 0
    /\ Mat(Top).transparency > 0
    /\ Top.reflected > 0
    /\ Top.refracted > 0
    /\ schlick(Top.comps.val) \in 1..(One - 1)

\* some object of the world crosses the segment from point to the light,
\* not nearer than the epsilon of hit
Occluded(point) ==
    LET v == vsub(light, point)
        r == Ray(point, normalize(v))
    IN  \E k \in DOMAIN objects :
            LET xs == shape_intersect(objects[k], r)
            IN  \E j \in DOMAIN xs : xs[j].t >= EPSILON /\ xs[j].t < magnitude(v)

\* C17: is_shadowed(point) is true if and only if the ray from point
\* towards the light has a hit whose t is less than the distance from
\* point to the light; without a hit, or with the nearest hit at or behind
\* the light, it is false.
C17_ShadowedIffHitBeforeLight ==
    \A i \in DOMAIN stack :
        stack[i].comps.some =>
            (stack[i].shadowed <=> Occluded(over_point(stack[i].comps.val)))

\* is_shadowed has answered true for one point and false for another whose
\* ray to the light hits an object behind the light
C17_Witness ==
    \E i, j \in DOMAIN stack :
        /\ stack[i].comps.some
        /\ stack[i].shadowed
        /\ stack[j].comps.some
        /\ ~stack[j].shadowed
        /\ LET p == over_point(stack[j].comps.val)
           IN  hit(world_intersect(objects, Ray(p, normalize(vsub(light, p))))).some

\* ------------------------------------------------------------------------
\* Computation::schlick on the computations of a hit on glass
\* ------------------------------------------------------------------------

\* refractive indices on the two sides of the surface
CompIndices == {One, 150, 200}

\* unit vectors to the eye: along the normal, oblique, and grazing
CompEyes == {Vec(0, One), Vec(60, 80), Vec(80, 60), Vec(96, 28), Vec(One, 0)}

CompInit ==
    /\ WorldIdle
    /\ TreeIdle
    /\ ImgIdle
    /\ ObjIdle
    /\ PrimIdle
    /\ HitIdle
    /\ PreIdle
    /\ CsgIdle
    /\ GrpIdle
    /\ WrapIdle
    /\ \E n1 \in CompIndices, n2 \in CompIndices, eyev \in CompEyes, t \in {One, 2 * One} :
          compS = [comps |-> Computation(t, GlassA, Vec(0, -One), eyev, unit_y, FALSE,
                                         reflect(vneg(eyev), unit_y), n1, n2),
                   out |-> 0, done |-> FALSE]

\* Computation::schlick
Schlick ==
    /\ ~compS.done
    /\ compS' = [compS EXCEPT !.out = schlick(compS.comps), !.done = TRUE]
    /\ UNCHANGED <<worldVars, hitS, preS, csgS, grpS, wrapS, primS, objS, imgS, treeS>>

CompNext == Schlick

SpecSchlick == CompInit /\ [][CompNext]_vars

\* C18: schlick returns exactly 1 when n1 > n2 and sin2_t > 1; otherwise it
\* returns r0 + (1 - r0) * (1 - cos)^5 with r0 = ((n1 - n2) / (n1 + n2))^2
\* and cos = cos_t when n1 > n2, else cos_i.
C18_Schlick ==
    compS.done =>
        LET c == compS.comps
            q == fdiv(c.n1 - c.n2, c.n1 + c.n2)
            r0 == fmul(q, q)
            cos == IF c.n1 > c.n2 THEN fsqrt(One - sin2_t(c)) ELSE cos_i(c)
        IN  IF c.n1 > c.n2 /\ sin2_t(c) > One
            THEN compS.out = One
            ELSE compS.out = r0 + fmul(One - r0, pow5(One - cos))

\* schlick has returned a reflectance strictly between r0 and 1 for a ray
\* that leaves the denser medium below the critical angle
C18_Witness ==
    /\ compS.done
    /\ compS.comps.n1 > compS.comps.n2
    /\ sin2_t(compS.comps) \in 1..One
    /\ cos_t(compS.comps) /= cos_i(compS.comps)
    /\ compS.out \in 1..(One - 1)

\* the t values of a list of intersections
Ts(xs) == [k \in DOMAIN xs |-> xs[k].t]

\* local_intersect of the shape, on a ray of its object space
LocalOf(shape, r) ==
    CASE shape.kind = "Plane" -> plane_local_intersect(shape, r)
      [] shape.kind = "Sphere" -> sphere_local_intersect(shape, r)
      [] shape.kind = "Group" -> group_local_intersect(shape, r)

\* C19: for a shape with an invertible transform T and a ray r,
\* Shape::intersect(r) gives the t values of the shape's local_intersect on
\* the ray whose origin and direction are those of r mapped by the inverse
\* of T, the direction not brought back to length 1.
C19_TransformCovariance ==
    (grpS.ys_done /\ invertible(grpS.shape.transform)) =>
        Ts(grpS.ys) =
            Ts(LocalOf(grpS.shape,
                       Ray(inverse_times_point(grpS.shape.transform, grpS.ray.origin),
                           inverse_times_vector(grpS.shape.transform, grpS.ray.direction))))

\* intersect has returned two hits on a sphere scaled by 2, whose ray in
\* object space has a direction of length 1/2
C19_Witness ==
    /\ grpS.ys_done
    /\ grpS.shape = Sphere(Transform(0, 2), UnitSphere.material)
    /\ Len(grpS.ys) = 2
    /\ grpS.ys[1].t < grpS.ys[2].t

\* how many entries of the list xs are equal to i
Count(xs, i) == Cardinality({k \in DOMAIN xs : xs[k] = i})

\* how many intersections equal to i the first k children report
RECURSIVE CountInChildren(_, _, _, _)
CountInChildren(children, r, i, k) ==
    IF k = 0
    THEN 0
    ELSE Count(shape_intersect(children[k], r), i) + CountInChildren(children, r, i, k - 1)

\* C20: Group::local_intersect returns the intersections of all the
\* children of the group, each with the leaf that was hit, sorted by
\* ascending t; a group without children returns the empty list.
C20_SortedUnion ==
    grpS.done =>
        LET children == grpS.group.children
            all == UNION {Range(shape_intersect(children[k], grpS.ray)) : k \in DOMAIN children}
        IN  /\ IsSorted(grpS.xs)
            /\ Range(grpS.xs) = all
            /\ \A i \in all :
                   Count(grpS.xs, i) = CountInChildren(children, grpS.ray, i, Len(children))
            /\ children = <<>> => grpS.xs = <<>>

\* local_intersect has returned the four hits of two spheres, those of the
\* second child first
C20_Witness ==
    /\ grpS.done
    /\ Len(grpS.group.children) = 2
    /\ Len(grpS.xs) = 4
    /\ grpS.xs[1].object = grpS.group.children[2]
    /\ grpS.xs[4].object = grpS.group.children[1]
    /\ grpS.xs[1].t < grpS.xs[4].t

\* ------------------------------------------------------------------------
\* Cubes: check_axis and Cube::local_intersect (src/src/shape/cube.rs)
\* ------------------------------------------------------------------------

\* origins inside the cube, on its faces and outside; directions along the
\* axes, oblique, and with a component below the epsilon
CubeRays ==
    {Ray(Vec(ox, oy), d) :
        ox \in {-2 * One, -One, 0, 50, One, 2 * One},
        oy \in {-2 * One, -One, 0, 50, One, 2 * One},
        d \in {Vec(One, 0), Vec(-One, 0), Vec(0, One), Vec(0, -One),
               Vec(60, 80), Vec(80, -60), Vec(1, One), Vec(-1, One), Vec(One, 1)}}

CubeInit ==
    /\ WorldIdle
    /\ HitIdle
    /\ PreIdle
    /\ CsgIdle
    /\ GrpIdle
    /\ WrapIdle
    /\ CompIdle
    /\ ObjIdle
    /\ ImgIdle
    /\ TreeIdle
    /\ \E ray \in CubeRays :
          primS = [shape |-> UnitCube, ray |-> ray, axes |-> <<>>, lateral |-> <<>>,
                   xs |-> <<>>, done |-> FALSE]

\* Cube::local_intersect, with the pairs check_axis returned to it
CubeLocalIntersect ==
    /\ ~primS.done
    /\ primS' = [primS EXCEPT
                    !.axes = <<cube_check_axis(primS.ray.origin.x, primS.ray.direction.x),
                               cube_check_axis(primS.ray.origin.y, primS.ray.direction.y)>>,
                    !.xs = cube_local_intersect(primS.shape, primS.ray),
                    !.done = TRUE]
    /\ UNCHANGED <<worldVars, hitS, preS, csgS, grpS, wrapS, compS, objS, imgS, treeS>>

CubeNext == CubeLocalIntersect

SpecCube == CubeInit /\ [][CubeNext]_vars

\* C21: Cube::local_intersect returns no intersection or exactly the two
\* intersections (tmin, tmax), tmin the greatest of the per-axis entry
\* values and tmax the least of the per-axis exit values, and returns them
\* if and only if tmin < tmax; every pair of check_axis is ordered
\* (smaller, larger), also for a direction component below the epsilon.
C21_SlabTest ==
    primS.done =>
        LET x == primS.axes[1]
            y == primS.axes[2]
            tmin == emax(x[1], y[1])
            tmax == emin(x[2], y[2])
        IN  /\ ele(x[1], x[2])
            /\ ele(y[1], y[2])
            /\ IF elt(tmin, tmax)
               THEN Ts(primS.xs) = <<tmin, tmax>>
               ELSE primS.xs = <<>>

\* ------------------------------------------------------------------------
\* OBJ files: fan_tranigulation and the face line of Parser::parse_obj_file
\* (src/src/shape/obj_file.rs)
\* ------------------------------------------------------------------------

\* Triangle::from
Triangle(p1, p2, p3) == [kind |-> "Triangle", p1 |-> p1, p2 |-> p2, p3 |-> p3]

\* SmoothTriangle::new
SmoothTriangle(p1, p2, p3, n1, n2, n3) ==
    [kind |-> "SmoothTriangle", p1 |-> p1, p2 |-> p2, p3 |-> p3,
     n1 |-> n1, n2 |-> n2, n3 |-> n3]

\* longest face line of the harness (vertex references on it)
MaxFace == 4

\* the vertices of a file (v lines), in the order read
ObjVertices == << Vec(-One, One), Vec(-One, 0), Vec(One, 0), Vec(One, One) >>

\* the normals of a file (vn lines), in the order read
ObjNormals == << Vec(0, One), Vec(One, 0), Vec(0, -One), Vec(-One, 0) >>

\* s.split_terminator('/').map(usize::from_str(..).ok()) of one reference:
\* "i" gives [Some(i)], "i//n" gives [Some(i), None, Some(n)]
plain_ref(i) == << Some(i) >>
smooth_ref(i, n) == << Some(i), None, Some(n) >>

\* slice[k] with a 0-based k of type usize: in range, or a panic
in_range(slice, k) == k >= 0 /\ k < Len(slice)

\* the indexing of one triangle of the fan stays inside the slices
fan_in_range(vertices, normals, index, i) ==
    LET v == index[i + 1]
    IN  IF Len(v) = 1
        THEN /\ in_range(vertices, index[1][1].val - 1)
             /\ in_range(vertices, v[1].val - 1)
             /\ in_range(vertices, v[1].val)
        ELSE /\ in_range(vertices, index[1][1].val - 1)
             /\ in_range(vertices, v[1].val - 1)
             /\ in_range(vertices, v[1].val)
             /\ in_range(normals, index[1][3].val - 1)
             /\ in_range(normals, v[3].val - 1)
             /\ in_range(normals, v[3].val)

\* the closure of fan_tranigulation for the 0-based position i of the line
fan_triangle(vertices, normals, index, i) ==
    LET v == index[i + 1]
    IN  IF Len(v) = 1
        THEN Triangle(vertices[(index[1][1].val - 1) + 1],
                      vertices[(v[1].val - 1) + 1],
                      vertices[v[1].val + 1])
        ELSE SmoothTriangle(vertices[(index[1][1].val - 1) + 1],
                            vertices[(v[1].val - 1) + 1],
                            vertices[v[1].val + 1],
                            normals[(index[1][3].val - 1) + 1],
                            normals[(v[3].val - 1) + 1],
                            normals[v[3].val + 1])

\* fan_tranigulation: (1..index.len() - 1).map(..).collect(), or a panic
\* on an index out of range
fan_tranigulation(vertices, normals, index) ==
    LET n == Len(index) - 2
    IN  IF \A k \in 1..n : fan_in_range(vertices, normals, index, k)
        THEN Some([k \in 1..n |-> fan_triangle(vertices, normals, index, k)])
        ELSE None

\* the face lines of the harness: three or four references to vertices
\* that exist, all plain or all with the normal of the same number
FaceLines ==
    LET Refs == UNION {[1..n -> 1..Len(ObjVertices)] : n \in 3..MaxFace}
    IN  {[k \in DOMAIN r |-> plain_ref(r[k])] : r \in Refs}
        \cup {[k \in DOMAIN r |-> smooth_ref(r[k], r[k])] : r \in Refs}

ObjInit ==
    /\ WorldIdle
    /\ HitIdle
    /\ PreIdle
    /\ CsgIdle
    /\ GrpIdle
    /\ WrapIdle
    /\ CompIdle
    /\ PrimIdle
    /\ ImgIdle
    /\ TreeIdle
    /\ \E index \in FaceLines :
       \E before \in {<<>>, <<Triangle(ObjVertices[1], ObjVertices[2], ObjVertices[3])>>} :
          objS = [vertices |-> ObjVertices, normals |-> ObjNormals, index |-> index,
                  before |-> before, children |-> before,
                  panicked |-> FALSE, done |-> FALSE]

\* the Some("f") arm of Parser::parse_obj_file: the triangles of the fan
\* are pushed to the current group, one after the other
ParseFace ==
    /\ ~objS.done
    /\ \E tris \in {fan_tranigulation(objS.vertices, objS.normals, objS.index)} :
          objS' = IF tris.some
                  THEN [objS EXCEPT !.children = objS.children \o tris.val, !.done = TRUE]
                  ELSE [objS EXCEPT !.panicked = TRUE, !.done = TRUE]
    /\ UNCHANGED <<worldVars, hitS, preS, csgS, grpS, wrapS, compS, primS, imgS, treeS>>

ObjNext == ParseFace

SpecObj == ObjInit /\ [][ObjNext]_vars

\* the vertices a triangle of the group was built from
Corners(tri) == << tri.p1, tri.p2, tri.p3 >>

\* C22: a face line listing the vertices i0, i1, ..., ik adds exactly
\* k-1 triangles to the current group, in order, the j-th being
\* (vertex i0, vertex ij, vertex i(j+1)).
C22_FanOfTheFace ==
    objS.done =>
        LET index == objS.index
            k == Len(index) - 1
            added == SubSeq(objS.children, Len(objS.before) + 1, Len(objS.children))
        IN  /\ ~objS.panicked
            /\ SubSeq(objS.children, 1, Len(objS.before)) = objS.before
            /\ Len(added) = k - 1
            /\ \A j \in 1..(k - 1) :
                  Corners(added[j]) = << objS.vertices[index[1][1].val],
                                        objS.vertices[index[j + 1][1].val],
                                        objS.vertices[index[j + 2][1].val] >>

\* ------------------------------------------------------------------------
\* Canvas: Canvas::new, Canvas::write_pixel and Canvas::to_ppm
\* (src/src/canvas.rs)
\* ------------------------------------------------------------------------

\* the float -0.0, which compares equal to 0.0 and prints as "-0"
NegZero == [k |-> "fin", v |-> 0, neg |-> TRUE]

\* Color::new
Color(red, green, blue) == [red |-> red, green |-> green, blue |-> blue]

\* Color::default
BlackColor == Color(Fin(0), Fin(0), Fin(0))

\* Canvas::new: height rows of width default colors
Canvas(width, height) ==
    [width |-> width, height |-> height,
     pixels |-> [r \in 1..height |-> [c \in 1..width |-> BlackColor]]]

\* Canvas::write_pixel(y, x, c): self.pixels[x][y] = c, both 0-based
write_pixel(pixels, y, x, c) == [pixels EXCEPT ![x + 1][y + 1] = c]

\* u8::MAX
U8_MAX == 255

\* LINE_LEN_LIMIT
LINE_LEN_LIMIT == 70

\* the break condition that lets a line grow by one character more
line_is_full_late(line_len, str) == line_len + Len(str) > LINE_LEN_LIMIT + 1

\* line_len + str.len() > LINE_LEN_LIMIT
line_is_full(line_len, str) == line_len + Len(str) > LINE_LEN_LIMIT

\* Float::round of num / den: to the nearest integer, halves away from zero
round_half_away(num, den) ==
    IF num >= 0 THEN (2 * num + den) \div (2 * den)
    ELSE -((2 * (-num) + den) \div (2 * den))

\* (cc * max).round()
scaled_round(cc) ==
    IF cc.k /= "fin" THEN cc
    ELSE IF cc = NegZero THEN NegZero
    ELSE LET r == round_half_away(cc.v * U8_MAX, One)
         IN  IF cc.v < 0 /\ r = 0 THEN NegZero ELSE Fin(r)

\* .max(T::zero()).min(max): Float::max returns the operand that is not a
\* NaN; of -0.0 and 0.0, which compare equal, it may return either
clamped(x, keeps_sign) ==
    LET lo == IF x = NegZero THEN (IF keeps_sign THEN NegZero ELSE Fin(0))
              ELSE emax(x, Fin(0))
    IN  IF lo = NegZero THEN NegZero ELSE emin(lo, Fin(U8_MAX))

DigitChars == << "0", "1", "2", "3", "4", "5", "6", "7", "8", "9" >>

\* the decimal numeral of a natural number, as its characters
RECURSIVE Numeral(_)
Numeral(n) ==
    IF n < 10 THEN << DigitChars[n + 1] >>
    ELSE Numeral(n \div 10) \o << DigitChars[(n % 10) + 1] >>

\* T::to_string of a float with an integer value
to_string(x) == IF x = NegZero THEN << "-", "0" >> ELSE Numeral(x.v)

\* String::pop
pop(s) == IF s = <<>> THEN s ELSE SubSeq(s, 1, Len(s) - 1)

\* the body of `for cc in [c.red, c.green, c.blue]`
write_value(st, cc, keeps_sign) ==
    LET str == to_string(clamped(scaled_round(cc), keeps_sign))
        st1 == IF line_is_full(st.line_len, str)
               THEN [ppm |-> pop(st.ppm) \o << "\n" >>, line_len |-> 0]
               ELSE st
    IN  [ppm |-> st1.ppm \o str \o << " " >>,
         line_len |-> st1.line_len + Len(str) + 1]

\* the body of `for c in r`, from the k-th color of the row on
RECURSIVE write_colors(_, _, _, _)
write_colors(st, r, k, keeps_sign) ==
    IF k > Len(r) THEN st
    ELSE CHOOSE out \in
            { write_colors(blue, r, k + 1, keeps_sign) :
                blue \in { write_value(green, r[k].blue, keeps_sign) :
                    green \in { write_value(red, r[k].green, keeps_sign) :
                        red \in { write_value(st, r[k].red, keeps_sign) } } } } : TRUE

\* the body of `for r in &self.pixels`, from the k-th row on
RECURSIVE write_rows(_, _, _, _)
write_rows(text, pixels, k, keeps_sign) ==
    IF k > Len(pixels) THEN text
    ELSE CHOOSE out \in
            { write_rows(pop(st.ppm) \o << "\n" >>, pixels, k + 1, keeps_sign) :
                st \in { write_colors([ppm |-> text, line_len |-> 0],
                                      pixels[k], 1, keeps_sign) } } : TRUE

\* Canvas::to_ppm
to_ppm(self, keeps_sign) ==
    write_rows(<< "P", "3", "\n" >> \o Numeral(self.width) \o << " " >>
                   \o Numeral(self.height) \o << "\n" >>
                   \o Numeral(U8_MAX) \o << "\n" >>,
               self.pixels, 1, keeps_sign)

\* widest and highest canvas of the harness
MaxWidth == 10
MaxHeight == 2

\* the colors written to a canvas, repeated along the rows: the colors of
\* the tests, values of one, two and three digits, values outside 0..1,
\* infinities, a NaN and a negative zero
Palettes ==
    { << Color(Fin(One), Fin(80), Fin(60)) >>,
      << Color(Fin(150), Fin(0), Fin(0)), Color(Fin(0), Fin(50), Fin(0)),
         Color(Fin(-50), Fin(0), Fin(One)) >>,
      << Color(Fin(One), Fin(One), Fin(One)) >>,
      << Color(Fin(One), Fin(One), Fin(One)), Color(Fin(One), Fin(One), Fin(One)),
         Color(Fin(One), Fin(One), Fin(One)), Color(Fin(One), Fin(One), Fin(One)),
         Color(Fin(One), Fin(One), Fin(One)), Color(Fin(One), Fin(One), Fin(20)) >>,
      << Color(Fin(One), Fin(One), Fin(One)), Color(Fin(One), Fin(2), Fin(One)),
         Color(Fin(20), Fin(One), Fin(One)) >>,
      << Color(NaN, PInf, NInf), Color(Fin(One), Fin(One), Fin(One)) >>,
      << Color(NegZero, Fin(One), Fin(5)), Color(Fin(One), NegZero, Fin(One)) >> }

\* Canvas::new and then write_pixel for every pixel
painted(width, height, palette, shift) ==
    [r \in 1..height |->
        [c \in 1..width |-> palette[((c - 1 + shift * (r - 1)) % Len(palette)) + 1]]]

PpmInit ==
    /\ WorldIdle
    /\ HitIdle
    /\ PreIdle
    /\ CsgIdle
    /\ GrpIdle
    /\ WrapIdle
    /\ CompIdle
    /\ PrimIdle
    /\ ObjIdle
    /\ TreeIdle
    /\ \E width \in 0..MaxWidth, height \in 0..MaxHeight, palette \in Palettes, shift \in 0..1 :
          imgS = [width |-> width, height |-> height,
                  pixels |-> painted(width, height, palette, shift),
                  tint |-> 0, rendered |-> FALSE, panicked |-> FALSE, ppm |-> <<>>, done |-> FALSE]

\* Canvas::to_ppm
ToPpm ==
    /\ ~imgS.done
    /\ ~imgS.panicked
    /\ \E keeps_sign \in BOOLEAN :
          imgS' = [imgS EXCEPT !.ppm = to_ppm(imgS, keeps_sign), !.done = TRUE]
    /\ UNCHANGED <<worldVars, hitS, preS, csgS, grpS, wrapS, compS, primS, objS, treeS>>

PpmNext == ToPpm

SpecPpm == PpmInit /\ [][PpmNext]_vars

\* the pieces of a text between the occurrences of a separator
Split(s, sep) ==
    LET at == {k \in DOMAIN s : s[k] = sep}
        nth == [i \in 1..Cardinality(at) |->
                   CHOOSE p \in at : Cardinality({q \in at : q < p}) = i - 1]
        from(i) == IF i = 1 THEN 1 ELSE nth[i - 1] + 1
        to(i) == IF i > Cardinality(at) THEN Len(s) ELSE nth[i] - 1
    IN  [i \in 1..(Cardinality(at) + 1) |-> SubSeq(s, from(i), to(i))]

\* the lines of a text that ends every line with a newline
LinesOf(text) ==
    LET pieces == Split(text, "\n")
    IN  SubSeq(pieces, 1, Len(pieces) - 1)

\* the lines after the three lines of the header
BodyOf(text) == SubSeq(LinesOf(text), 4, Len(LinesOf(text)))

RECURSIVE TokensOf(_, _)
TokensOf(lines, k) ==
    IF k > Len(lines) THEN <<>>
    ELSE Split(lines[k], " ") \o TokensOf(lines, k + 1)

\* the digit a character stands for, -1 when it is no digit
DigitOf(ch) ==
    IF \E d \in 0..9 : DigitChars[d + 1] = ch
    THEN CHOOSE d \in 0..9 : DigitChars[d + 1] = ch
    ELSE -1

\* the number a token denotes, -1 when it is not a numeral
RECURSIVE ValueOf(_)
ValueOf(tok) ==
    IF tok = <<>> THEN -1
    ELSE IF tok[1] = "-"
         THEN (IF ValueOf(Tail(tok)) >= 0 THEN -ValueOf(Tail(tok)) ELSE -1)
    ELSE IF \E k \in 1..Len(tok) : DigitOf(tok[k]) < 0 THEN -1
    ELSE IF Len(tok) = 1 THEN DigitOf(tok[1])
    ELSE 10 * ValueOf(SubSeq(tok, 1, Len(tok) - 1)) + DigitOf(tok[Len(tok)])

\* C23: in the text of Canvas::to_ppm no line is longer than 70
\* characters, no color value is split across two lines, and every color
\* value written lies in 0..255.
C23_PpmLines ==
    (imgS.done /\ ~imgS.rendered) =>
        LET tokens == TokensOf(BodyOf(imgS.ppm), 1)
        IN  /\ \A k \in DOMAIN LinesOf(imgS.ppm) : Len(LinesOf(imgS.ppm)[k]) <= LINE_LEN_LIMIT
            /\ Len(tokens) = 3 * imgS.width * imgS.height
            /\ \A k \in DOMAIN tokens : ValueOf(tokens[k]) \in 0..U8_MAX

\* a row that did not fit on one line, with a line of exactly 70 characters
C23_Witness ==
    /\ imgS.done
    /\ ~imgS.rendered
    /\ Len(BodyOf(imgS.ppm)) > imgS.height
    /\ \E k \in DOMAIN LinesOf(imgS.ppm) : Len(LinesOf(imgS.ppm)[k]) = LINE_LEN_LIMIT

\* ------------------------------------------------------------------------
\* Cylinders and cones: Cylinder::local_intersect, Cone::local_intersect
\* (src/src/shape/cylinder.rs, src/src/shape/cone.rs), in the plane z = 0
\* ------------------------------------------------------------------------

\* Cylinder::new
Cylinder(transform, mat, minimum, maximum, closed) ==
    [kind |-> "Cylinder", transform |-> transform, material |-> mat,
     minimum |-> minimum, maximum |-> maximum, closed |-> closed]

\* Cone::new
Cone(transform, mat, minimum, maximum, closed) ==
    [kind |-> "Cone", transform |-> transform, material |-> mat,
     minimum |-> minimum, maximum |-> maximum, closed |-> closed]

\* check_cap: x.powi(2) + z.powi(2) <= radius.powi(2), radius 1 for the cylinder
check_cap(ray, t, radius) ==
    LET x == ray.origin.x + fmul(t, ray.direction.x)
    IN  fmul(x, x) <= fmul(radius, radius)

\* intersect_caps of both shapes: the radius of the cap at y = m is 1 for
\* the cylinder and m for the cone
intersect_caps(self, ray) ==
    IF self.closed /\ ray.direction.y /= 0
    THEN LET cap(m) ==
                 LET t == fdiv(m - ray.origin.y, ray.direction.y)
                 IN  IF check_cap(ray, t, IF self.kind = "Cone" THEN m ELSE One)
                     THEN << Intersection(t, self) >>
                     ELSE <<>>
         IN  cap(self.minimum) \o cap(self.maximum)
    ELSE <<>>

\* the hits on the side at the roots t0 and t1 whose y lies strictly
\* between minimum and maximum
between_limits(self, ray, a, b, disc) ==
    LET t0 == fdiv(-b - fsqrt(disc), 2 * a)
        t1 == fdiv(-b + fsqrt(disc), 2 * a)
        y0 == ray.origin.y + fmul(t0, ray.direction.y)
        y1 == ray.origin.y + fmul(t1, ray.direction.y)
    IN  (IF self.minimum < y0 /\ y0 < self.maximum THEN << Intersection(t0, self) >> ELSE <<>>)
        \o (IF self.minimum < y1 /\ y1 < self.maximum THEN << Intersection(t1, self) >> ELSE <<>>)

\* the intersections Cylinder::local_intersect pushes for the side
cylinder_lateral(self, ray) ==
    LET a == fmul(ray.direction.x, ray.direction.x)
        b == 2 * fmul(ray.origin.x, ray.direction.x)
        c == fmul(ray.origin.x, ray.origin.x) - One
        disc == fmul(b, b) - 4 * fmul(a, c)
    IN  IF a = 0 \/ disc < 0 THEN <<>> ELSE between_limits(self, ray, a, b, disc)

\* Cylinder::local_intersect
cylinder_local_intersect(self, ray) ==
    LET a == fmul(ray.direction.x, ray.direction.x)
        b == 2 * fmul(ray.origin.x, ray.direction.x)
        c == fmul(ray.origin.x, ray.origin.x) - One
        disc == fmul(b, b) - 4 * fmul(a, c)
    IN  IF a = 0 THEN intersect_caps(self, ray)
        ELSE IF disc < 0 THEN <<>>
        ELSE sort_in(<<>>, cylinder_lateral(self, ray) \o intersect_caps(self, ray))

\* the intersections Cone::local_intersect pushes for the side; with a and
\* b both zero the roots are 0/0 and no comparison with the limits holds
cone_lateral(self, ray) ==
    LET a == fmul(ray.direction.x, ray.direction.x) - fmul(ray.direction.y, ray.direction.y)
        b == 2 * (fmul(ray.origin.x, ray.direction.x) - fmul(ray.origin.y, ray.direction.y))
        c == fmul(ray.origin.x, ray.origin.x) - fmul(ray.origin.y, ray.origin.y)
        disc == fmul(b, b) - 4 * fmul(a, c)
    IN  IF a = 0 /\ b /= 0
        THEN << Intersection(fdiv(-c, 2 * b), self) >>
        ELSE IF disc < 0 \/ a = 0 THEN <<>>
        ELSE between_limits(self, ray, a, b, disc)

\* Cone::local_intersect
cone_local_intersect(self, ray) ==
    LET a == fmul(ray.direction.x, ray.direction.x) - fmul(ray.direction.y, ray.direction.y)
        b == 2 * (fmul(ray.origin.x, ray.direction.x) - fmul(ray.origin.y, ray.direction.y))
        c == fmul(ray.origin.x, ray.origin.x) - fmul(ray.origin.y, ray.origin.y)
        disc == fmul(b, b) - 4 * fmul(a, c)
    IN  IF ~(a = 0 /\ b /= 0) /\ disc < 0 THEN <<>>
        ELSE sort_in(<<>>, cone_lateral(self, ray) \o intersect_caps(self, ray))

\* the cylinders and cones of the tests: unbounded, and cut at two heights,
\* open and closed
Conics ==
    LET m == Material(10, 90, 0, 0, One)
    IN  { Cylinder(identity, m, -max_value, max_value, FALSE),
          Cylinder(identity, m, One, 2 * One, FALSE),
          Cylinder(identity, m, One, 2 * One, TRUE),
          Cone(identity, m, -max_value, max_value, FALSE),
          Cone(identity, m, -50, 50, FALSE),
          Cone(identity, m, -50, 50, TRUE) }

ConicRays ==
    {Ray(Vec(ox, oy), d) :
        ox \in {-3 * One, -One, 0, 50, 2 * One},
        oy \in {-2 * One, 0, 150, 3 * One},
        d \in {Vec(One, 0), Vec(0, One), Vec(One, One), Vec(One, -One),
               Vec(60, 80), Vec(80, 60), Vec(-One, 50)}}

ConicInit ==
    /\ WorldIdle
    /\ HitIdle
    /\ PreIdle
    /\ CsgIdle
    /\ GrpIdle
    /\ WrapIdle
    /\ CompIdle
    /\ ObjIdle
    /\ ImgIdle
    /\ TreeIdle
    /\ \E shape \in Conics, ray \in ConicRays :
          primS = [shape |-> shape, ray |-> ray, axes |-> <<>>, lateral |-> <<>>,
                   xs |-> <<>>, done |-> FALSE]

\* Cylinder::local_intersect, with the intersections it pushed for the side
CylinderLocalIntersect ==
    /\ ~primS.done
    /\ primS.shape.kind = "Cylinder"
    /\ primS' = [primS EXCEPT !.lateral = cylinder_lateral(primS.shape, primS.ray),
                              !.xs = cylinder_local_intersect(primS.shape, primS.ray),
                              !.done = TRUE]
    /\ UNCHANGED <<worldVars, hitS, preS, csgS, grpS, wrapS, compS, objS, imgS, treeS>>

\* Cone::local_intersect, with the intersections it pushed for the side
ConeLocalIntersect ==
    /\ ~primS.done
    /\ primS.shape.kind = "Cone"
    /\ primS' = [primS EXCEPT !.lateral = cone_lateral(primS.shape, primS.ray),
                              !.xs = cone_local_intersect(primS.shape, primS.ray),
                              !.done = TRUE]
    /\ UNCHANGED <<worldVars, hitS, preS, csgS, grpS, wrapS, compS, objS, imgS, treeS>>

ConicNext == CylinderLocalIntersect \/ ConeLocalIntersect

SpecConic == ConicInit /\ [][ConicNext]_vars

\* C26: every intersection with the side that Cylinder::local_intersect or
\* Cone::local_intersect reports has its point's y = origin.y + t *
\* direction.y strictly between minimum and maximum, on every path of the
\* code, the cone's branch for a near zero included.
C26_SideWithinLimits ==
    primS.done =>
        \A k \in DOMAIN primS.lateral :
            LET y == primS.ray.origin.y + fmul(primS.lateral[k].t, primS.ray.direction.y)
            IN  /\ primS.shape.minimum < y
                /\ y < primS.shape.maximum
                /\ primS.lateral[k] \in Range(primS.xs)

\* ------------------------------------------------------------------------
\* Trees of groups and CSG nodes: Shape::intersect and the unwraps and
\* panics color_at can reach (src/src/shape/mod.rs, src/src/world.rs)
\* ------------------------------------------------------------------------

\* the variants whose material() is None and whose local_normal_at panics
InnerKinds == {"Group", "ConstructiveSolidGeometry"}

\* material().unwrap() on a shape panics
unwrap_panics(shape) == ~material(shape).some

\* the Group and ConstructiveSolidGeometry arms of Shape::local_normal_at
local_normal_at_panics(shape) == shape.kind \in InnerKinds

\* World::color_at on a world of one object panics: in precompute through
\* normal_at of the hit or the unwrap for an entry of containers, or in
\* shade_hit, reflected_color and refracted_color through the unwrap for
\* the object of the computation
color_at_panics(xs) ==
    LET h == hit(xs)
    IN  /\ h.some
        /\ \/ (invertible(h.val.object.transform) /\ local_normal_at_panics(h.val.object))
           \/ \E k \in DOMAIN xs : unwrap_panics(xs[k].object)
           \/ unwrap_panics(h.val.object)

\* a sphere around (0, 1), one around (0, 3) and one twice as large
SphereUp == Sphere(Transform(One, 1), UnitSphere.material)
SphereFar == Sphere(Transform(3 * One, 1), UnitSphere.material)
SphereBig == Sphere(Transform(0, 2), UnitSphere.material)

\* deepest nesting of the trees: node, node, node, leaf
MaxNest == 3

\* groups in CSG nodes, CSG nodes in groups and in CSG nodes
RECURSIVE TreesOf(_)
TreesOf(n) ==
    IF n = 0 THEN {UnitSphere, SphereUp}
    ELSE LET below == TreesOf(n - 1)
         IN  below
             \cup {Group(identity, <<a, SphereFar>>) : a \in below}
             \cup {ConstructiveSolidGeometry(identity, op, a, SphereBig) :
                      op \in Operation, a \in below}
             \cup {ConstructiveSolidGeometry(Transform(One, 1), "Difference", SphereBig, a) :
                      a \in below}

Trees == {t \in TreesOf(MaxNest) : t.kind \in InnerKinds}

TreeRays ==
    {Ray(Vec(x, -5 * One), Vec(0, One)) : x \in {-One, 0, 50}}
        \cup {Ray(Vec(-5 * One, y), Vec(One, 0)) : y \in {0, One}}

TreeInit ==
    /\ WorldIdle
    /\ HitIdle
    /\ PreIdle
    /\ CsgIdle
    /\ GrpIdle
    /\ WrapIdle
    /\ CompIdle
    /\ PrimIdle
    /\ ObjIdle
    /\ ImgIdle
    /\ \E shape \in Trees, ray \in TreeRays :
          treeS = [shape |-> shape, ray |-> ray, xs |-> <<>>, xs_done |-> FALSE,
                   panicked |-> FALSE, done |-> FALSE]

\* Shape::intersect on the root of the tree
TreeIntersect ==
    /\ ~treeS.xs_done
    /\ treeS' = [treeS EXCEPT !.xs = shape_intersect(treeS.shape, treeS.ray),
                              !.xs_done = TRUE]
    /\ UNCHANGED <<worldVars, hitS, preS, csgS, grpS, wrapS, compS, primS, objS, imgS>>

\* World::color_at on the world whose only object is the tree
TreeColorAt ==
    /\ ~treeS.done
    /\ treeS' = [treeS EXCEPT
                    !.panicked = color_at_panics(world_intersect(<<treeS.shape>>, treeS.ray)),
                    !.done = TRUE]
    /\ UNCHANGED <<worldVars, hitS, preS, csgS, grpS, wrapS, compS, primS, objS, imgS>>

TreeNext == TreeIntersect \/ TreeColorAt

SpecTree == TreeInit /\ [][TreeNext]_vars

\* C29: every Intersection that Shape::intersect returns for a tree of
\* nested Group and ConstructiveSolidGeometry nodes is tagged with a leaf
\* primitive, so material() is Some for it, and color_at reaches neither a
\* material().unwrap() on None nor a panicking arm of local_normal_at.
C29_TaggedWithLeaves ==
    /\ treeS.xs_done =>
          \A k \in DOMAIN treeS.xs :
              /\ treeS.xs[k].object.kind \notin InnerKinds
              /\ material(treeS.xs[k].object).some
    /\ treeS.done => ~treeS.panicked

\* C29 witness: a CSG node inside a group inside a CSG node, hit by the
\* ray, and a color_at on it that returned
C29_Witness ==
    /\ treeS.xs_done
    /\ treeS.done
    /\ treeS.shape.kind = "ConstructiveSolidGeometry"
    /\ treeS.shape.left.kind = "Group"
    /\ treeS.shape.left.children[1].kind = "ConstructiveSolidGeometry"
    /\ Len(treeS.xs) >= 2
    /\ ~treeS.panicked

\* ------------------------------------------------------------------------
\* Camera::render into a canvas (src/src/camera.rs, src/src/canvas.rs)
\* ------------------------------------------------------------------------

\* largest hsize and vsize of the cameras
MaxSide == 3

\* the color w.color_at(self.ray_for_pixel(x, y)) gives: one per pixel, so
\* that every pixel can be told from every other
color_for_pixel(x, y, tint) == Color(Fin(10 * (x + 1)), Fin(10 * (y + 1)), Fin(10 * tint))

\* image.pixels[x][y] is inside the vectors Canvas::new made
index_in_bounds(pixels, x, y) == x < Len(pixels) /\ y < Len(pixels[x + 1])

\* the loops of Camera::render from the n-th pixel on, y outside and x
\* inside; None when an index is out of bounds
RECURSIVE render_from(_, _, _, _, _)
render_from(pixels, hsize, vsize, tint, n) ==
    IF n >= hsize * vsize THEN Some(pixels)
    ELSE LET y == n \div hsize
             x == n % hsize
         IN  IF index_in_bounds(pixels, x, y)
             THEN render_from([pixels EXCEPT ![x + 1][y + 1] = color_for_pixel(x, y, tint)],
                              hsize, vsize, tint, n + 1)
             ELSE None

\* Camera::render
render(hsize, vsize, tint) == render_from(Canvas(hsize, vsize).pixels, hsize, vsize, tint, 0)

RenderInit ==
    /\ WorldIdle
    /\ HitIdle
    /\ PreIdle
    /\ CsgIdle
    /\ GrpIdle
    /\ WrapIdle
    /\ CompIdle
    /\ PrimIdle
    /\ ObjIdle
    /\ TreeIdle
    /\ \E hsize \in 0..MaxSide, vsize \in 0..MaxSide, tint \in 0..3 :
          imgS = [width |-> hsize, height |-> vsize, pixels |-> Canvas(hsize, vsize).pixels,
                  tint |-> tint, rendered |-> FALSE, panicked |-> FALSE,
                  ppm |-> <<>>, done |-> FALSE]

\* Camera::render: the canvas it returns, or the panic of an index
CameraRender ==
    /\ ~imgS.rendered
    /\ ~imgS.done
    /\ \E image \in {render(imgS.width, imgS.height, imgS.tint)} :
          imgS' = IF image.some
                  THEN [imgS EXCEPT !.pixels = image.val, !.rendered = TRUE]
                  ELSE [imgS EXCEPT !.panicked = TRUE, !.rendered = TRUE]
    /\ UNCHANGED <<worldVars, hitS, preS, csgS, grpS, wrapS, compS, primS, objS, treeS>>

RenderNext == CameraRender \/ ToPpm

SpecRender == RenderInit /\ [][RenderNext]_vars

\* the colors of a canvas in the order to_ppm writes them: row after row
RECURSIVE EmittedFrom(_, _)
EmittedFrom(pixels, r) ==
    IF r > Len(pixels) THEN <<>> ELSE pixels[r] \o EmittedFrom(pixels, r + 1)

\* C30: for every hsize and vsize, equal or not, Camera::render writes each
\* pixel (x, y), 0 <= x < hsize and 0 <= y < vsize, into the canvas of
\* Canvas::new(hsize, vsize) without an index out of bounds, and the pixel
\* is in the row y and the column x that to_ppm emits for it.
C30_PixelsInPlace ==
    imgS.rendered =>
        /\ ~imgS.panicked
        /\ \A x \in 0..(imgS.width - 1), y \in 0..(imgS.height - 1) :
              /\ Len(EmittedFrom(imgS.pixels, 1)) = imgS.width * imgS.height
              /\ EmittedFrom(imgS.pixels, 1)[y * imgS.width + x + 1]
                    = color_for_pixel(x, y, imgS.tint)
====
